---- MODULE Spec2Model ----
(***************************************************************************)
(* scrambl: the hold-to-start timer, the scramble generators and the       *)
(* statistics of the solve list.                                           *)
(*                                                                         *)
(* The generators (src/src/lib/scramble.ts), the statistics and the edit   *)
(* dialog (src/src/App.tsx) and the helpers of src/src/utils have their    *)
(* own specifications further down (SpecScramble, SpecSq1, SpecPyraminx,   *)
(* SpecStats, SpecMean, SpecAverages, SpecEdit, SpecFormat, SpecReorder),  *)
(* which leave the timer untouched.                                        *)
(*                                                                         *)
(* Two copies of the timer exist in the repository:                        *)
(*   - the useTimer hook (src/src/hooks/useTimer.ts), driven by            *)
(*     AlgPractice (view, goBackToCases, practiceCase);          -> Spec    *)
(*     the practice of a set, with its random mode, has its own            *)
(*     specification with a coarser clock;               -> SpecPractice   *)
(*   - the timer written inline in App (src/src/App.tsx), with             *)
(*     switchEvent, setPage and the solve list.                  -> SpecApp *)
(* Both use the same state names, so the two specifications share the      *)
(* timer variables; each specification leaves the other component's own    *)
(* variables untouched.                                                    *)
(*                                                                         *)
(* Event handlers are bound by an effect that depends on timerState, so a  *)
(* handler always reads the phase of the latest render; every handler is   *)
(* one atomic action.  setTimeout and requestAnimationFrame are modelled   *)
(* as sets of pending callbacks named by the handle the browser returned;  *)
(* clearTimeout / cancelAnimationFrame remove the callback with the given  *)
(* handle and nothing else.  A handle is an opaque number: the browser     *)
(* returns one that names no pending callback, and the only holder of a    *)
(* handle is the ref that every setTimeout / requestAnimationFrame call of *)
(* the code overwrites, so the model hands out the least number that names *)
(* no pending callback.  Date.now() is the variable now.                   *)
(***************************************************************************)
EXTENDS Integers, Sequences, FiniteSets, TLC

HOLD_DELAY == 550

\* bounds of the model
StartNow == 1000
TickMs == 275
MaxTicks == 6
AppMaxTicks == 4
MaxTimeouts == 2
MaxFrames == 2
MaxRedraws == 2
MaxStops == 2


TimerStates == {"idle", "holding", "ready", "running"}
Codes == {"Space", "KeyA"}
Views == {"sets", "cases", "practice"}
Pages == {"timer", "algs"}
EventIds == {"3x3", "2x2"}
DEFAULT_EVENT == "3x3"

\* AlgPractice: the ids of the cases of the one set on the set list; a set is known by
\* the ids of its cases, null by the set of no cases, and no case by the empty id
CaseIds == {"c1", "c2"}
FullSet == CaseIds
NoSet == {}
NoCase == ""

VARIABLES
    \* the timer (same names in useTimer.ts and App.tsx)
    timerState, displayTime, startTimeRef, animationFrameRef, holdTimeoutRef,
    \* the browser: clock, pending setTimeout / requestAnimationFrame callbacks
    now, pendingTimeouts, pendingFrames,
    \* AlgPractice around useTimer
    view, mounted, selectedSet, selectedCase, randomMode, practiceSolves, caseStorage,
    \* App around its inline timer
    page, currentEvent, solves, storage, scramble, editingSolve, editTimeInput, snapshot,
    \* observation: the stop emissions, the last operation, clock readings
    stopped, last, downAt, upAt, ticks,
    \* scramble.ts: the generator call under way, its locals and its outcome
    call, moves, lastFace, secondLastFace, faceEntry, i, parts, top, bottom, entropy,
    tip, pc, result

timerVars == <<timerState, displayTime, startTimeRef, animationFrameRef, holdTimeoutRef>>
browserVars == <<pendingTimeouts, pendingFrames>>
practiceVars == <<selectedSet, selectedCase, randomMode, practiceSolves, caseStorage>>
hookVars == <<view, mounted, practiceVars>>
editVars == <<editingSolve, editTimeInput>>
appVars == <<page, currentEvent, solves, storage, scramble, editVars, snapshot>>
obsVars == <<stopped, last, downAt, upAt, ticks>>
genVars == <<call, moves, lastFace, secondLastFace, faceEntry, i, parts, top, bottom, entropy,
             tip, pc, result>>
vars == <<timerVars, now, browserVars, hookVars, appVars, obsVars, genVars>>

\* A JavaScript number is Finite(n), Infinity, NaN or, where the code says so, null:
\* values that are never equal to one another.
Finite(n) == [ms |-> n]
Infinity == [inf |-> TRUE]
NaN == [nan |-> TRUE]
Null == [null |-> TRUE]

Init ==
    /\ timerState = "idle"
    /\ displayTime = 0
    /\ startTimeRef = 0
    /\ animationFrameRef = 0
    /\ holdTimeoutRef = 0
    /\ now = StartNow
    /\ pendingTimeouts = {}
    /\ pendingFrames = {}
    /\ view = "sets"
    /\ mounted = TRUE
    /\ selectedSet = NoSet
    /\ selectedCase = NoCase
    /\ randomMode = FALSE
    /\ practiceSolves = << >>
    /\ caseStorage = [c \in CaseIds |-> << >>]
    /\ page = "timer"
    /\ currentEvent = DEFAULT_EVENT
    /\ solves = << >>
    /\ storage = [e \in EventIds |-> << >>]
    /\ scramble = [event |-> DEFAULT_EVENT, serial |-> 0]
    /\ editingSolve = Null
    /\ editTimeInput = << >>
    /\ snapshot = [best |-> Null, avg5 |-> Null, avg12 |-> Null, ao5Map |-> << >>, ao12Map |-> << >>]
    /\ stopped = << >>
    /\ last = [op |-> "init", from |-> "idle"]
    /\ downAt = 0
    /\ upAt = 0
    /\ ticks = 0
    /\ call = [fn |-> "none", faces |-> << >>, axis |-> << >>, mods |-> << >>, length |-> 0]
    /\ moves = << >>
    /\ lastFace = ""
    /\ secondLastFace = ""
    /\ faceEntry = [face |-> "", moves |-> << >>]
    /\ i = 0
    /\ parts = << >>
    /\ top = 0
    /\ bottom = 0
    /\ entropy = 0
    /\ tip = 0
    /\ pc = "idle"
    /\ result = << >>

\* observation of the operation that just ran and the phase it ran in
Mark(op) == last' = [op |-> op, from |-> timerState]

----------------------------------------------------------------------------
(* browser primitives *)

\* a handle that names none of the pending callbacks
FreshHandle(used) == CHOOSE h \in 1..(Cardinality(used) + 1) : h \notin used

TimeoutIds == {t.id : t \in pendingTimeouts}

\* holdTimeoutRef.current = setTimeout(cb, delay): the callback is due at now + delay
SetTimeout(delay) ==
    LET h == FreshHandle(TimeoutIds) IN
    /\ Cardinality(pendingTimeouts) < MaxTimeouts
    /\ holdTimeoutRef' = h
    /\ pendingTimeouts' = pendingTimeouts \cup {[id |-> h, due |-> now + delay]}

\* animationFrameRef.current = requestAnimationFrame(updateDisplay), asked while the
\* callbacks in `pending` are waiting
RequestAnimationFrame(pending) ==
    LET h == FreshHandle(pending) IN
    /\ Cardinality(pending) < MaxFrames
    /\ animationFrameRef' = h
    /\ pendingFrames' = pending \cup {h}

\* clearTimeout(h)
ClearTimeout(h) == {t \in pendingTimeouts : t.id # h}

\* cancelAnimationFrame(h)
CancelAnimationFrame(h) == pendingFrames \ {h}

----------------------------------------------------------------------------
(* the timer's own functions *)

\* the body of `if (timerState === 'idle')` in handleKeyDown / handlePointerDown
BeginHold ==
    /\ timerState' = "holding"
    /\ SetTimeout(HOLD_DELAY)
    /\ downAt' = now                      \* observation: the clock at this down
    /\ UNCHANGED <<displayTime, startTimeRef, animationFrameRef, pendingFrames,
                   stopped, upAt, ticks>>
    /\ UNCHANGED practiceVars

\* faulty variant: the run is measured from the press, not from the release
startTimer_FromDown ==
    /\ startTimeRef' = downAt
    /\ timerState' = "running"
    /\ RequestAnimationFrame(pendingFrames)
    /\ upAt' = now
    /\ ticks' = 0
    /\ UNCHANGED <<displayTime, holdTimeoutRef, pendingTimeouts, stopped, downAt>>
    /\ UNCHANGED practiceVars

startTimer ==
    /\ startTimeRef' = now
    /\ timerState' = "running"
    /\ RequestAnimationFrame(pendingFrames)
    /\ upAt' = now                        \* observation: the clock at this up
    /\ ticks' = 0                         \* observation: redraws of this run
    /\ UNCHANGED <<displayTime, holdTimeoutRef, pendingTimeouts, stopped, downAt>>
    /\ UNCHANGED practiceVars

\* loadTimes(caseId): what localStorage holds under the case's key
AlgPractice_loadTimes(caseId) == caseStorage[caseId]

\* saveTimes(caseId, times): localStorage after the write
AlgPractice_saveTimes(caseId, times) == [caseStorage EXCEPT ![caseId] = times]

\* randomCase(set, exclude): the cases Math.random can pick, NoCase for no `exclude`
randomCase(set, exclude) ==
    IF Cardinality(set) > 1 /\ exclude # NoCase THEN {c \in set : c # exclude} ELSE set

\* faulty variant: the solve is stored with the times of the case drawn next
handleTimerStop_UnderNext(finalTime) ==
    LET newSolve == [id |-> now, time |-> finalTime, date |-> now] IN
    IF selectedCase = NoCase THEN UNCHANGED practiceVars
    ELSE IF randomMode /\ selectedSet # NoSet
         THEN \E next \in randomCase(selectedSet, selectedCase) :
                  LET saved == AlgPractice_saveTimes(next,
                                  <<newSolve>> \o AlgPractice_loadTimes(next)) IN
                  /\ caseStorage' = saved
                  /\ selectedCase' = next
                  /\ practiceSolves' = saved[next]
                  /\ UNCHANGED <<selectedSet, randomMode>>
         ELSE LET updated == <<newSolve>> \o practiceSolves IN
              /\ practiceSolves' = updated
              /\ caseStorage' = AlgPractice_saveTimes(selectedCase, updated)
              /\ UNCHANGED <<selectedSet, selectedCase, randomMode>>

\* AlgPractice.handleTimerStop: the three nested updaters read the case, the mode and
\* the set of the latest render; loadTimes(next.id) reads what saveTimes has just written
handleTimerStop(finalTime) ==
    LET newSolve == [id |-> now, time |-> finalTime, date |-> now] IN
    IF selectedCase = NoCase THEN UNCHANGED practiceVars
    ELSE IF randomMode /\ selectedSet # NoSet
         THEN LET saved == AlgPractice_saveTimes(selectedCase,
                             <<newSolve>> \o AlgPractice_loadTimes(selectedCase)) IN
              /\ caseStorage' = saved
              /\ \E next \in randomCase(selectedSet, selectedCase) :
                     /\ selectedCase' = next
                     /\ practiceSolves' = saved[next]
              /\ UNCHANGED <<selectedSet, randomMode>>
         ELSE LET updated == <<newSolve>> \o practiceSolves IN
              /\ practiceSolves' = updated
              /\ caseStorage' = AlgPractice_saveTimes(selectedCase, updated)
              /\ UNCHANGED <<selectedSet, selectedCase, randomMode>>

\* what a stop emits, with the time from the up that began the run to this stop
\* and the number of redraw ticks of the run
Emission(finalTime) ==
    [value |-> finalTime, ran |-> now - upAt, ticks |-> ticks]

\* faulty variant: the stop leaves on the display what the last redraw put there
stopTimer_StaleDisplay ==
    LET finalTime == now - startTimeRef IN
    /\ Len(stopped) < MaxStops
    /\ pendingFrames' = CancelAnimationFrame(animationFrameRef)
    /\ startTimeRef' = 0
    /\ timerState' = "idle"
    /\ stopped' = Append(stopped, Emission(finalTime))
    /\ handleTimerStop(finalTime)
    /\ UNCHANGED <<displayTime, animationFrameRef, holdTimeoutRef, pendingTimeouts,
                   downAt, upAt, ticks>>

\* faulty variant: the start instant is cleared before the elapsed time is taken
stopTimer_AfterClear ==
    LET finalTime == now - 0 IN
    /\ Len(stopped) < MaxStops
    /\ pendingFrames' = CancelAnimationFrame(animationFrameRef)
    /\ displayTime' = finalTime
    /\ startTimeRef' = 0
    /\ timerState' = "idle"
    /\ stopped' = Append(stopped, Emission(finalTime))
    /\ handleTimerStop(finalTime)
    /\ UNCHANGED <<animationFrameRef, holdTimeoutRef, pendingTimeouts, downAt, upAt, ticks>>

\* faulty variant: the stop reports what the last redraw displayed
stopTimer_FromDisplay ==
    LET finalTime == displayTime IN
    /\ Len(stopped) < MaxStops
    /\ pendingFrames' = CancelAnimationFrame(animationFrameRef)
    /\ displayTime' = finalTime
    /\ startTimeRef' = 0
    /\ timerState' = "idle"
    /\ stopped' = Append(stopped, Emission(finalTime))
    /\ handleTimerStop(finalTime)
    /\ UNCHANGED <<animationFrameRef, holdTimeoutRef, pendingTimeouts, downAt, upAt, ticks>>

\* faulty variant: the stop forgets to clear the start instant
stopTimer_KeepStart ==
    LET finalTime == now - startTimeRef IN
    /\ Len(stopped) < MaxStops
    /\ pendingFrames' = CancelAnimationFrame(animationFrameRef)
    /\ displayTime' = finalTime
    /\ timerState' = "idle"
    /\ stopped' = Append(stopped, Emission(finalTime))
    /\ handleTimerStop(finalTime)
    /\ UNCHANGED <<startTimeRef, animationFrameRef, holdTimeoutRef, pendingTimeouts,
                   downAt, upAt, ticks>>

\* useTimer.stopTimer: onStopRef.current(finalTime) is handleTimerStop, and the append
\* to stopped is the observation of the call
stopTimer ==
    LET finalTime == now - startTimeRef IN
    /\ Len(stopped) < MaxStops
    /\ pendingFrames' = CancelAnimationFrame(animationFrameRef)
    /\ displayTime' = finalTime
    /\ startTimeRef' = 0
    /\ timerState' = "idle"
    /\ stopped' = Append(stopped, Emission(finalTime))
    /\ handleTimerStop(finalTime)
    /\ UNCHANGED <<animationFrameRef, holdTimeoutRef, pendingTimeouts, downAt, upAt, ticks>>

\* faulty variant: the release goes back to idle without clearTimeout
CancelHold_NoClear ==
    /\ timerState' = "idle"
    /\ UNCHANGED <<displayTime, startTimeRef, animationFrameRef, holdTimeoutRef, pendingTimeouts,
                   pendingFrames, stopped, downAt, upAt, ticks>>
    /\ UNCHANGED practiceVars

\* the body of `if (timerState === 'holding')` in handleKeyUp / handlePointerUp
CancelHold ==
    /\ pendingTimeouts' = ClearTimeout(holdTimeoutRef)
    /\ timerState' = "idle"
    /\ UNCHANGED <<displayTime, startTimeRef, animationFrameRef, holdTimeoutRef, pendingFrames,
                   stopped, downAt, upAt, ticks>>
    /\ UNCHANGED practiceVars

NoChange ==
    UNCHANGED <<timerVars, browserVars, practiceVars, stopped, downAt, upAt, ticks>>

\* faulty variant: the reset forgets clearTimeout
resetTimer_NoClearTimeout ==
    /\ timerState' = "idle"
    /\ pendingFrames' = CancelAnimationFrame(animationFrameRef)
    /\ startTimeRef' = 0
    /\ UNCHANGED <<displayTime, animationFrameRef, holdTimeoutRef, pendingTimeouts,
                   stopped, downAt, upAt, ticks>>

resetTimer ==
    /\ timerState' = "idle"
    /\ pendingFrames' = CancelAnimationFrame(animationFrameRef)
    /\ pendingTimeouts' = ClearTimeout(holdTimeoutRef)
    /\ startTimeRef' = 0
    /\ UNCHANGED <<displayTime, animationFrameRef, holdTimeoutRef, stopped, downAt, upAt, ticks>>

----------------------------------------------------------------------------
(* useTimer: handlers bound only while active *)

active == mounted /\ view = "practice"

DownBody(stop) ==
    IF timerState = "idle" THEN BeginHold
    ELSE IF timerState = "running" THEN stop
    ELSE NoChange

UpBody ==
    IF timerState = "holding" THEN CancelHold
    ELSE IF timerState = "ready" THEN startTimer
    ELSE NoChange

KeyDownOp(code, repeat) ==
    IF repeat THEN "keydown.repeat" ELSE IF code # "Space" THEN "keydown.other" ELSE "keydown"

KeyUpOp(code) == IF code # "Space" THEN "keyup.other" ELSE "keyup"

\* faulty variant: e.repeat is not looked at
handleKeyDown_IgnoreRepeat(code, repeat) ==
    /\ mounted /\ view = "practice"
    /\ IF code # "Space" THEN NoChange
       ELSE IF timerState = "idle" THEN BeginHold
       ELSE IF timerState = "running"
            THEN /\ Len(stopped) < MaxStops
                 /\ pendingFrames' = CancelAnimationFrame(animationFrameRef)
                 /\ displayTime' = now - startTimeRef
                 /\ startTimeRef' = 0
                 /\ timerState' = "idle"
                 /\ stopped' = Append(stopped, Emission(now - startTimeRef))
                 /\ handleTimerStop(now - startTimeRef)
                 /\ UNCHANGED <<animationFrameRef, holdTimeoutRef, pendingTimeouts,
                                downAt, upAt, ticks>>
            ELSE NoChange
    /\ last' = [op |-> (IF repeat THEN "keydown.repeat"
                         ELSE IF code # "Space" THEN "keydown.other" ELSE "keydown"),
                from |-> timerState]
    /\ UNCHANGED <<now, view, mounted, appVars>>
    /\ UNCHANGED genVars

handleKeyDown(code, repeat) ==
    /\ active
    /\ IF code # "Space" \/ repeat THEN NoChange ELSE DownBody(stopTimer)
    /\ Mark(KeyDownOp(code, repeat))
    /\ UNCHANGED <<now, view, mounted, appVars>>
    /\ UNCHANGED genVars

handleKeyUp(code) ==
    /\ active
    /\ IF code # "Space" THEN NoChange ELSE UpBody
    /\ Mark(KeyUpOp(code))
    /\ UNCHANGED <<now, view, mounted, appVars>>
    /\ UNCHANGED genVars

\* faulty variant: the pointer listener is bound whatever `active` says
handlePointerDown_Unguarded ==
    /\ DownBody(stopTimer)
    /\ Mark("pointerdown")
    /\ UNCHANGED <<now, view, mounted, appVars>>
    /\ UNCHANGED genVars

handlePointerDown ==
    /\ active
    /\ DownBody(stopTimer)
    /\ Mark("pointerdown")
    /\ UNCHANGED <<now, view, mounted, appVars>>
    /\ UNCHANGED genVars

handlePointerUp ==
    /\ active
    /\ UpBody
    /\ Mark("pointerup")
    /\ UNCHANGED <<now, view, mounted, appVars>>
    /\ UNCHANGED genVars

\* a key or pointer event, down or up, while the effect has returned at
\* `if (!active) return`: no listener is bound, so no code of the hook runs
UnboundInput ==
    /\ mounted
    /\ ~active
    /\ NoChange
    /\ Mark("unbound")
    /\ UNCHANGED <<now, view, mounted, appVars>>
    /\ UNCHANGED genVars

----------------------------------------------------------------------------
(* callbacks the browser runs *)

\* the setTimeout callback of BeginHold: () => setTimerState('ready')
HoldTimeout(t) ==
    /\ t \in pendingTimeouts
    /\ now >= t.due
    /\ pendingTimeouts' = pendingTimeouts \ {t}
    /\ timerState' = IF mounted THEN "ready" ELSE timerState
    /\ Mark("holdTimeout")
    /\ UNCHANGED <<displayTime, startTimeRef, animationFrameRef, holdTimeoutRef, now,
                   pendingFrames, hookVars, appVars, stopped, downAt, upAt, ticks>>
    /\ UNCHANGED genVars

\* the requestAnimationFrame callback
updateDisplay(f) ==
    /\ f \in pendingFrames
    /\ IF startTimeRef > 0
       THEN /\ ticks < MaxRedraws
            /\ displayTime' = IF mounted THEN now - startTimeRef ELSE displayTime
            /\ RequestAnimationFrame(pendingFrames \ {f})
            /\ ticks' = ticks + 1
       ELSE /\ pendingFrames' = pendingFrames \ {f}
            /\ UNCHANGED <<displayTime, animationFrameRef, ticks>>
    /\ Mark("updateDisplay")
    /\ UNCHANGED <<timerState, startTimeRef, holdTimeoutRef, now, pendingTimeouts,
                   hookVars, appVars, stopped, downAt, upAt>>
    /\ UNCHANGED genVars

\* time passes
AdvanceClock ==
    /\ now + TickMs <= StartNow + MaxTicks * TickMs
    /\ now' = now + TickMs
    /\ UNCHANGED <<timerVars, browserVars, hookVars, appVars, obsVars>>
    /\ UNCHANGED genVars

----------------------------------------------------------------------------
(* AlgPractice: the caller of useTimer *)

openSet ==
    /\ mounted /\ view = "sets"
    /\ selectedSet' = FullSet
    /\ view' = "cases"
    /\ Mark("openSet")
    /\ UNCHANGED <<timerVars, now, browserVars, mounted, selectedCase, randomMode,
                   practiceSolves, caseStorage, appVars, stopped, downAt, upAt, ticks>>
    /\ UNCHANGED genVars

goBackToSets ==
    /\ mounted /\ view = "cases"
    /\ view' = "sets"
    /\ selectedSet' = NoSet
    /\ Mark("goBackToSets")
    /\ UNCHANGED <<timerVars, now, browserVars, mounted, selectedCase, randomMode,
                   practiceSolves, caseStorage, appVars, stopped, downAt, upAt, ticks>>
    /\ UNCHANGED genVars

\* what practiceCase, practiceSet and practiceSelected do alike: the case `c` is selected,
\* its stored times are loaded and the timer's display is cleared
EnterPractice(c, random, op) ==
    /\ selectedCase' = c
    /\ practiceSolves' = AlgPractice_loadTimes(c)
    /\ displayTime' = 0
    /\ randomMode' = random
    /\ view' = "practice"
    /\ Mark(op)
    /\ UNCHANGED <<timerState, startTimeRef, animationFrameRef, holdTimeoutRef, now, browserVars,
                   mounted, caseStorage, appVars, stopped, downAt, upAt, ticks>>
    /\ UNCHANGED genVars

\* the click on a case of the case list
practiceCase(algCase) ==
    /\ mounted /\ view = "cases"
    /\ algCase \in selectedSet
    /\ EnterPractice(algCase, FALSE, "practiceCase")
    /\ UNCHANGED selectedSet

\* the button "Practice Set", shown while no case is ticked
practiceSet ==
    /\ mounted /\ view = "cases"
    /\ selectedSet # NoSet
    /\ \E c \in randomCase(selectedSet, NoCase) : EnterPractice(c, TRUE, "practiceSet")
    /\ UNCHANGED selectedSet

\* the button "Practice Selected", shown while the cases `selectedCaseIds` are ticked
practiceSelected(selectedCaseIds) ==
    LET filteredSet == {c \in selectedSet : c \in selectedCaseIds} IN
    /\ mounted /\ view = "cases"
    /\ selectedSet # NoSet /\ selectedCaseIds # {}
    /\ selectedCaseIds \subseteq selectedSet
    /\ \E c \in randomCase(filteredSet, NoCase) : EnterPractice(c, TRUE, "practiceSelected")
    /\ selectedSet' = filteredSet

goBackToCases ==
    /\ mounted /\ view = "practice"
    /\ resetTimer
    /\ selectedSet' = IF selectedSet # NoSet THEN FullSet ELSE selectedSet
    /\ view' = "cases"
    /\ Mark("goBackToCases")
    /\ UNCHANGED <<now, mounted, selectedCase, randomMode, practiceSolves, caseStorage, appVars>>
    /\ UNCHANGED genVars

\* the delete button of a time in the practice view
AlgPractice_deleteSolve(id) ==
    LET updated == SelectSeq(practiceSolves, LAMBDA s : s.id # id) IN
    /\ mounted /\ view = "practice"
    /\ selectedCase # NoCase
    /\ practiceSolves' = updated
    /\ caseStorage' = AlgPractice_saveTimes(selectedCase, updated)
    /\ Mark("deleteSolve")
    /\ UNCHANGED <<timerVars, now, browserVars, view, mounted, selectedSet, selectedCase,
                   randomMode, appVars, stopped, downAt, upAt, ticks>>
    /\ UNCHANGED genVars

\* AlgPractice leaves the page: the cleanup of useTimer's unmount effect
Unmount ==
    /\ mounted
    /\ pendingFrames' = CancelAnimationFrame(animationFrameRef)
    /\ pendingTimeouts' = ClearTimeout(holdTimeoutRef)
    /\ mounted' = FALSE
    /\ Mark("unmount")
    /\ UNCHANGED <<timerVars, now, view, practiceVars, appVars, stopped, downAt, upAt, ticks>>
    /\ UNCHANGED genVars

\* AlgPractice is rendered again: a new instance of every useState / useRef
Mount ==
    /\ ~mounted
    /\ mounted' = TRUE
    /\ view' = "sets"
    /\ selectedSet' = NoSet
    /\ selectedCase' = NoCase
    /\ randomMode' = FALSE
    /\ practiceSolves' = << >>
    /\ timerState' = "idle"
    /\ displayTime' = 0
    /\ startTimeRef' = 0
    /\ animationFrameRef' = 0
    /\ holdTimeoutRef' = 0
    /\ Mark("mount")
    /\ UNCHANGED <<now, browserVars, caseStorage, appVars, stopped, downAt, upAt, ticks>>
    /\ UNCHANGED genVars

Next ==
    \/ \E c \in Codes, r \in BOOLEAN : handleKeyDown(c, r)
    \/ \E c \in Codes : handleKeyUp(c)
    \/ handlePointerDown
    \/ handlePointerUp
    \/ UnboundInput
    \/ \E t \in pendingTimeouts : HoldTimeout(t)
    \/ \E f \in pendingFrames : updateDisplay(f)
    \/ AdvanceClock
    \/ openSet
    \/ goBackToSets
    \/ \E c \in CaseIds : practiceCase(c)
    \/ goBackToCases
    \/ Unmount
    \/ Mount

Spec == Init /\ [][Next]_vars

----------------------------------------------------------------------------
(* App.tsx: the statistics every render of App computes from the solve list *)

\* solve.penalty, undefined when the field is absent
PenaltyOf(solve) == IF "penalty" \in DOMAIN solve THEN solve.penalty ELSE "undefined"

\* faulty variant: the +2 penalty is not added
effectiveTime_NoPlusTwo(solve) ==
    IF PenaltyOf(solve) = "dnf" THEN Infinity ELSE Finite(solve.time)

effectiveTime(solve) ==
    IF PenaltyOf(solve) = "dnf" THEN Infinity
    ELSE IF PenaltyOf(solve) = "+2" THEN Finite(solve.time + 2000)
    ELSE Finite(solve.time)

RECURSIVE MathMin(_)
\* Math.min(...list) for a non-empty list of finite numbers
MathMin(list) ==
    IF Len(list) = 1 THEN list[1]
    ELSE LET rest == MathMin(Tail(list))
         IN IF list[1].ms < rest.ms THEN list[1] ELSE rest

\* solves.map(effectiveTime).filter(t => t !== Infinity), for the list a render reads
validTimes(list) ==
    SelectSeq([n \in DOMAIN list |-> effectiveTime(list[n])], LAMBDA t : t # Infinity)

\* faulty variant: the fastest raw time, penalties not counted in
best_RawTimes(list) ==
    LET raw == SelectSeq([n \in DOMAIN list |->
                             IF PenaltyOf(list[n]) = "dnf" THEN Infinity
                             ELSE Finite(list[n].time)],
                         LAMBDA t : t # Infinity)
    IN IF Len(raw) > 0 THEN MathMin(raw) ELSE Null

best(list) == IF Len(validTimes(list)) > 0 THEN MathMin(validTimes(list)) ELSE Null

RECURSIVE Insert(_, _)
\* x put into an ascending list, behind the values the comparator (a, b) => a - b does
\* not put after it: a - b is NaN for two Infinities, which sort takes as 0
Insert(x, sorted) ==
    IF sorted = << >> THEN <<x>>
    ELSE LET a == sorted[1]
             after == IF a = Infinity /\ x = Infinity THEN FALSE
                      ELSE IF a = Infinity THEN TRUE
                      ELSE IF x = Infinity THEN FALSE
                      ELSE a.ms - x.ms > 0
         IN IF after THEN <<x>> \o sorted ELSE <<a>> \o Insert(x, Tail(sorted))

RECURSIVE Sort(_)
\* [...times].sort((a, b) => a - b): a sorted copy, equal values in their old order
Sort(times) ==
    IF times = << >> THEN << >>
    ELSE Insert(times[Len(times)], Sort(SubSeq(times, 1, Len(times) - 1)))

\* sorted.slice(1, -1)
Slice1(sorted) == SubSeq(sorted, 2, Len(sorted) - 1)

RECURSIVE Sum(_)
\* middle.reduce((sum, t) => sum + t, 0)
Sum(middle) ==
    IF middle = << >> THEN Finite(0)
    ELSE LET rest == Sum(SubSeq(middle, 1, Len(middle) - 1))
             t == middle[Len(middle)]
         IN IF rest = Infinity \/ t = Infinity THEN Infinity ELSE Finite(rest.ms + t.ms)

RECURSIVE Gcd(_, _)
Gcd(a, b) == IF b = 0 THEN a ELSE Gcd(b, a % b)

\* sum / n: a whole number of milliseconds, or that and a proper fraction in lowest terms
Quotient(sum, n) ==
    IF n = 0 THEN NaN
    ELSE IF sum = Infinity THEN Infinity
    ELSE IF sum.ms % n = 0 THEN Finite(sum.ms \div n)
    ELSE LET g == Gcd(n, sum.ms % n)
         IN [ms |-> sum.ms \div n, over |-> <<(sum.ms % n) \div g, n \div g>>]

\* faulty variant: the times are not sorted before the ends are dropped
trimmedMean_Unsorted(times) ==
    LET middle == Slice1(times)
    IN Quotient(Sum(middle), Len(middle))

trimmedMean(times) ==
    LET sorted == Sort(times)
        middle == Slice1(sorted)
    IN Quotient(Sum(middle), Len(middle))

\* solves.slice(k, k + w).map(effectiveTime), k counted from 0 as in the code
Window(list, k, w) == [n \in 1..w |-> effectiveTime(list[k + n])]

\* faulty variant: the five oldest solves
avg5_Oldest(list) ==
    IF Len(list) >= 5 THEN trimmedMean(Window(list, Len(list) - 5, 5)) ELSE Null

avg5(list) == IF Len(list) >= 5 THEN trimmedMean(Window(list, 0, 5)) ELSE Null

avg12(list) == IF Len(list) >= 12 THEN trimmedMean(Window(list, 0, 12)) ELSE Null

\* faulty variant: the loop stops one index early
ao5Map_Short(list) == [k \in 0..(Len(list) - 5 - 1) |-> trimmedMean(Window(list, k, 5))]

\* the Map of the rolling ao5: the keys are the indices the for loop visits
ao5Map(list) == [k \in 0..(Len(list) - 5) |-> trimmedMean(Window(list, k, 5))]

\* faulty variant: the loop starts at the second solve
ao12Map_FromOne(list) == [k \in 1..(Len(list) - 12) |-> trimmedMean(Window(list, k, 12))]

ao12Map(list) == [k \in 0..(Len(list) - 12) |-> trimmedMean(Window(list, k, 12))]

\* what one render computes from the list it reads
Stats(list) ==
    [best |-> best(list), avg5 |-> avg5(list), avg12 |-> avg12(list),
     ao5Map |-> ao5Map(list), ao12Map |-> ao12Map(list)]

\* faulty variant: the best time of the render before is kept when it was faster
Render_KeepsBest ==
    \E list \in {solves'} :
        LET fresh == Stats(list)
            keep == /\ snapshot.best # Null
                    /\ (fresh.best = Null \/ snapshot.best.ms < fresh.best.ms)
        IN snapshot' = [fresh EXCEPT !.best = IF keep THEN snapshot.best ELSE @]

\* the render that follows a state change reads the new list
Render == \E list \in {solves'} : snapshot' = Stats(list)

RECURSIVE SortSolves(_)
SortSolves(list) ==
    IF list = << >> THEN << >>
    ELSE LET rest == SortSolves(SubSeq(list, 1, Len(list) - 1))
             x == list[Len(list)]
             before == SelectSeq(rest, LAMBDA s : s.time <= x.time)
             behind == SelectSeq(rest, LAMBDA s : s.time > x.time)
         IN before \o <<x>> \o behind

\* faulty variant: the list itself is sorted, not a copy of its times
Rerender_SortsList ==
    /\ solves' = SortSolves(solves)
    /\ UNCHANGED storage
    /\ Render

\* the render that follows a change of other state: slice, map and [...times] copy,
\* so the list and what is stored are as they were
Rerender ==
    /\ UNCHANGED <<solves, storage>>
    /\ Render

----------------------------------------------------------------------------
(* App: the timer written inline in App.tsx, bound only on the timer page *)

\* setScramble(generateScramble(event)): the scramble on the page is known by the event
\* it was drawn for and by a serial that sets it apart from the scramble it replaces
App_generateScramble(event) == [event |-> event, serial |-> 1 - scramble.serial]

\* App.stopTimer: there is no callback; the stop prepends the solve and saves the list
App_stopTimer ==
    LET finalTime == now - startTimeRef
        \* date: new Date().toISOString(), the text of the clock reading
        newSolve == [id |-> now, time |-> finalTime, date |-> now]
        updated == <<newSolve>> \o solves
    IN
    /\ Len(solves) < MaxStops
    /\ pendingFrames' = CancelAnimationFrame(animationFrameRef)
    /\ displayTime' = finalTime
    /\ startTimeRef' = 0
    /\ timerState' = "idle"
    /\ solves' = updated
    /\ storage' = [storage EXCEPT ![currentEvent] = updated]
    /\ scramble' = App_generateScramble(currentEvent)
    /\ UNCHANGED <<animationFrameRef, holdTimeoutRef, pendingTimeouts, stopped, downAt, upAt, ticks>>

App_handleKeyDown(code, repeat) ==
    /\ page = "timer"
    /\ IF code # "Space" \/ repeat
       THEN NoChange /\ UNCHANGED <<solves, storage, scramble>>
       ELSE IF timerState = "running" THEN App_stopTimer
            ELSE DownBody(FALSE) /\ UNCHANGED <<solves, storage, scramble>>
    /\ Mark(KeyDownOp(code, repeat))
    /\ UNCHANGED <<now, hookVars, page, currentEvent, editVars>>
    /\ UNCHANGED genVars
    /\ Render

App_handleKeyUp(code) ==
    /\ page = "timer"
    /\ IF code # "Space" THEN NoChange ELSE UpBody
    /\ Mark(KeyUpOp(code))
    /\ UNCHANGED <<now, hookVars, page, currentEvent, scramble, editVars>>
    /\ UNCHANGED genVars
    /\ Rerender

App_handlePointerDown ==
    /\ page = "timer"
    /\ IF timerState = "running" THEN App_stopTimer
       ELSE DownBody(FALSE) /\ UNCHANGED <<solves, storage, scramble>>
    /\ Mark("pointerdown")
    /\ UNCHANGED <<now, hookVars, page, currentEvent, editVars>>
    /\ UNCHANGED genVars
    /\ Render

App_handlePointerUp ==
    /\ page = "timer"
    /\ UpBody
    /\ Mark("pointerup")
    /\ UNCHANGED <<now, hookVars, page, currentEvent, scramble, editVars>>
    /\ UNCHANGED genVars
    /\ Rerender

loadTimes(eventId) == storage[eventId]

\* faulty variant: the phase is not looked at
switchEvent_WhileRunning(event) ==
    /\ page = "timer"
    /\ IF event = currentEvent
       THEN UNCHANGED <<timerState, displayTime, currentEvent, solves, scramble>>
       ELSE /\ currentEvent' = event
            /\ solves' = loadTimes(event)
            /\ scramble' = App_generateScramble(event)
            /\ displayTime' = 0
            /\ timerState' = "idle"
    /\ Mark("switchEvent")
    /\ UNCHANGED <<startTimeRef, animationFrameRef, holdTimeoutRef, now, browserVars, hookVars,
                   page, storage, editVars, stopped, downAt, upAt, ticks>>
    /\ UNCHANGED genVars
    /\ Render

switchEvent(event) ==
    /\ page = "timer"
    /\ IF event = currentEvent \/ timerState = "running"
       THEN UNCHANGED <<timerState, displayTime, currentEvent, solves, scramble>>
       ELSE /\ currentEvent' = event
            /\ solves' = loadTimes(event)
            /\ scramble' = App_generateScramble(event)
            /\ displayTime' = 0
            /\ timerState' = "idle"
    /\ Mark("switchEvent")
    /\ UNCHANGED <<startTimeRef, animationFrameRef, holdTimeoutRef, now, browserVars, hookVars,
                   page, storage, editVars, stopped, downAt, upAt, ticks>>
    /\ UNCHANGED genVars
    /\ Render

deleteSolve(id) ==
    LET updated == SelectSeq(solves, LAMBDA s : s.id # id) IN
    /\ page = "timer"
    /\ solves' = updated
    /\ storage' = [storage EXCEPT ![currentEvent] = updated]
    /\ Mark("deleteSolve")
    /\ UNCHANGED <<timerVars, now, browserVars, hookVars, page, currentEvent, scramble, editVars,
                   stopped, downAt, upAt, ticks>>
    /\ UNCHANGED genVars
    /\ Render

clearAllSolves ==
    /\ page = "timer"
    /\ Len(solves) > 0
    /\ solves' = << >>
    /\ storage' = [storage EXCEPT ![currentEvent] = << >>]
    /\ displayTime' = 0
    /\ Mark("clearAllSolves")
    /\ UNCHANGED <<timerState, startTimeRef, animationFrameRef, holdTimeoutRef, now, browserVars,
                   hookVars, page, currentEvent, scramble, editVars, stopped, downAt, upAt, ticks>>
    /\ UNCHANGED genVars
    /\ Render

App_AdvanceClock ==
    /\ now + TickMs <= StartNow + AppMaxTicks * TickMs
    /\ now' = now + TickMs
    /\ UNCHANGED <<timerVars, browserVars, hookVars, appVars, obsVars>>
    /\ UNCHANGED genVars

setPage(p) ==
    /\ page' = p
    /\ Mark("setPage")
    /\ UNCHANGED <<timerVars, now, browserVars, hookVars, currentEvent, scramble, editVars,
                   stopped, downAt, upAt, ticks>>
    /\ UNCHANGED genVars
    /\ Rerender

NextApp ==
    \/ \E c \in Codes, r \in BOOLEAN : App_handleKeyDown(c, r)
    \/ \E c \in Codes : App_handleKeyUp(c)
    \/ App_handlePointerDown
    \/ App_handlePointerUp
    \/ \E t \in pendingTimeouts : HoldTimeout(t)
    \/ \E f \in pendingFrames : updateDisplay(f)
    \/ App_AdvanceClock
    \/ \E e \in EventIds : switchEvent(e)
    \/ \E s \in {solves[n] : n \in DOMAIN solves} : deleteSolve(s.id)
    \/ clearAllSolves
    \/ \E p \in Pages : setPage(p)

SpecApp == Init /\ [][NextApp]_vars

----------------------------------------------------------------------------
(* scramble.ts: the rejection-sampling scramble generators                  *)
(*                                                                          *)
(* A string is the sequence of its characters, so that + is \o and the      *)
(* returned scramble can be taken apart again.  Math.random() is an input:  *)
(* every index a draw can produce is one choice of the action that draws.   *)
(* One action is one pass of the do-while loop together with, when the      *)
(* while test is false, the rest of the for body.                           *)

\* everything outside scramble.ts
uiVars == <<timerVars, now, browserVars, hookVars, appVars, obsVars>>
sq1Vars == <<parts, top, bottom, entropy>>

MaxLength == 3

AXIS == [f \in {"R", "L", "U", "D", "F", "B"} |->
            IF f \in {"R", "L"} THEN 0 ELSE IF f \in {"U", "D"} THEN 1 ELSE 2]
MODIFIERS == << << >>, <<"'">>, <<"2">> >>

\* the axis / mods arguments of generatePyraminxScramble and generateSkewbScramble
PYRA_AXIS == [f \in {"R", "L", "U", "B"} |-> IF f \in {"R", "L"} THEN 0 ELSE 1]
PYRA_MODS == << << >>, <<"'">> >>
PYRA_FACES == <<"R", "U", "L", "B">>

\* { face: f, moves: [f] }
Single(f) == [face |-> f, moves |-> << <<f>> >>]
\* { face: f, moves: [f, f + 'w'] }
Wide(f) == [face |-> f, moves |-> << <<f>>, <<f, "w">> >>]

FACES_2 == <<Single("R"), Single("U"), Single("F")>>
FACES_3 == <<Single("R"), Single("L"), Single("U"), Single("D"), Single("F"), Single("B")>>
FACES_4 == <<Wide("R"), Single("L"), Wide("U"), Single("D"), Wide("F"), Single("B")>>

\* face lists no built-in event has: three faces on two axes, and the malformed ones
\* (no face, one face, two faces on one axis)
FACES_RLU == <<Single("R"), Single("L"), Single("U")>>
FACES_NONE == << >>
FACES_R == <<Single("R")>>
FACES_RL == <<Single("R"), Single("L")>>

FaceLists == {FACES_2, FACES_3, FACES_4, FACES_RLU, FACES_NONE, FACES_R, FACES_RL}

\* the EventConfig values handed to generateScramble (no customScramble)
EventConfigs == {[faces |-> F, scrambleLength |-> L] : F \in FaceLists, L \in 0..MaxLength}

\* axis[face]; a key the record lacks reads as undefined, which equals only itself
AxisOf(axis, face) == IF face \in DOMAIN axis THEN axis[face] ELSE -1

\* no generator has been called yet: a behaviour follows one call from its entry to
\* its outcome, and a call reads nothing that an earlier call left behind
Idle == pc = "idle"

\* const moves = [], let lastFace = '', let secondLastFace = ''
EnterLoop ==
    /\ moves' = << >>
    /\ lastFace' = ""
    /\ secondLastFace' = ""
    /\ faceEntry' = [face |-> "", moves |-> << >>]
    /\ i' = 0
    /\ result' = << >>
    /\ pc' = "loop"
    /\ UNCHANGED <<uiVars, tip, sq1Vars>>

generateScramble(event) ==
    /\ Idle
    /\ call' = [fn |-> "generateScramble", faces |-> event.faces, axis |-> AXIS,
                mods |-> MODIFIERS, length |-> event.scrambleLength]
    /\ EnterLoop

\* randomMovesScramble pushes face + mod: its faces are entries whose one move is the face
randomMovesScramble(faces, axis, mods, length) ==
    /\ Idle
    /\ call' = [fn |-> "randomMovesScramble", faces |-> [k \in DOMAIN faces |-> Single(faces[k])],
                axis |-> axis, mods |-> mods, length |-> length]
    /\ EnterLoop

\* faulty variant: the for loop runs once more
LoopTest_Inclusive == i <= call.length

\* i < scrambleLength
LoopTest == i < call.length

\* faulty variant: the same face may follow itself
Rejected_NoSameFace(f) ==
    /\ lastFace # ""
    /\ secondLastFace # ""
    /\ AxisOf(call.axis, f.face) = AxisOf(call.axis, lastFace)
    /\ AxisOf(call.axis, lastFace) = AxisOf(call.axis, secondLastFace)

\* faulty variant: the axes are not compared
Rejected_NoAxis(f) == f.face = lastFace

\* faulty variant: || between the two axis comparisons
Rejected_AxisOr(f) ==
    \/ f.face = lastFace
    \/ /\ lastFace # ""
       /\ secondLastFace # ""
       /\ \/ AxisOf(call.axis, f.face) = AxisOf(call.axis, lastFace)
          \/ AxisOf(call.axis, lastFace) = AxisOf(call.axis, secondLastFace)

\* the while condition of the do-while loop
Rejected(f) ==
    \/ f.face = lastFace
    \/ /\ lastFace # ""
       /\ secondLastFace # ""
       /\ AxisOf(call.axis, f.face) = AxisOf(call.axis, lastFace)
       /\ AxisOf(call.axis, lastFace) = AxisOf(call.axis, secondLastFace)

\* faces[Math.floor(Math.random() * faces.length)] drew entry k
DrawFace(k) ==
    /\ pc = "loop"
    /\ LoopTest
    /\ k \in DOMAIN call.faces
    /\ faceEntry' = call.faces[k]
    /\ IF Rejected(call.faces[k])
       THEN UNCHANGED <<moves, lastFace, secondLastFace, i>>
       ELSE /\ \E b \in DOMAIN call.faces[k].moves, m \in DOMAIN call.mods :
                  moves' = Append(moves, call.faces[k].moves[b] \o call.mods[m])
            /\ secondLastFace' = lastFace
            /\ lastFace' = call.faces[k].face
            /\ i' = i + 1
    /\ UNCHANGED <<call, pc, result, uiVars, tip, sq1Vars>>

\* faces is empty: faces[0] is undefined and reading .face of it throws a TypeError
DrawFromNoFace ==
    /\ pc = "loop"
    /\ LoopTest
    /\ call.faces = << >>
    /\ pc' = "threw"
    /\ UNCHANGED <<call, moves, lastFace, secondLastFace, faceEntry, i, result, uiVars, tip, sq1Vars>>

RECURSIVE Join(_, _)
\* faulty variant: the separator also follows the last element
Join_Trailing(list, sep) ==
    IF list = << >> THEN << >> ELSE Head(list) \o sep \o Join(Tail(list), sep)

\* Array.prototype.join
Join(list, sep) ==
    IF list = << >> THEN << >>
    ELSE IF Len(list) = 1 THEN Head(list)
    ELSE Head(list) \o sep \o Join(Tail(list), sep)

\* return moves.join(' ')
Return ==
    /\ pc = "loop"
    /\ ~LoopTest
    /\ result' = Join(moves, <<" ">>)
    /\ pc' = "returned"
    /\ UNCHANGED <<call, moves, lastFace, secondLastFace, faceEntry, i, uiVars, tip, sq1Vars>>

\* a draw the while condition lets through
AcceptedDraw == \E k \in DOMAIN call.faces : ~Rejected(call.faces[k]) /\ DrawFace(k)

NextScramble ==
    \/ \E event \in EventConfigs : generateScramble(event)
    \/ \E length \in 0..MaxLength : randomMovesScramble(PYRA_FACES, PYRA_AXIS, PYRA_MODS, length)
    \/ \E k \in DOMAIN call.faces : DrawFace(k)
    \/ DrawFromNoFace
    \/ Return

SpecScramble == Init /\ [][NextScramble]_vars

\* a draw of Math.random() is fair: an index that is possible again and again is
\* drawn in the end, and the code between two draws always runs on
SpecScrambleFair == SpecScramble /\ WF_vars(AcceptedDraw) /\ WF_vars(Return)

----------------------------------------------------------------------------
(* scramble.ts: generateSq1Scramble                                         *)
(*                                                                          *)
(* Math.floor(Math.random() * 12) is one of the indices 0..11.  A run makes *)
(* at least 26 such draws; the model lets MaxFreePasses passes of the       *)
(* do-while loop draw both indices from DrawIndices (the two ends of the    *)
(* range and the index that gives 0) and every other pass draw DefaultDraw. *)

SQ1_LENGTH == 13
SQ1_FACETS == 12
SQ1_OFFSET == 5

MaxFreePasses == 2
DefaultDraw == 6
DrawIndices == {0, SQ1_OFFSET, SQ1_FACETS - 1}

DigitChars == <<"0", "1", "2", "3", "4", "5", "6", "7", "8", "9">>

RECURSIVE Digits(_)
\* the decimal digits of a natural number
Digits(n) ==
    IF n < 10 THEN <<DigitChars[n + 1]>>
    ELSE Digits(n \div 10) \o <<DigitChars[(n % 10) + 1]>>

\* String(n), as a template literal formats a number
NumberToString(n) == IF n < 0 THEN <<"-">> \o Digits(-n) ELSE Digits(n)

\* `(${top},${bottom})`
Sq1Token(t, b) == <<"(">> \o NumberToString(t) \o <<",">> \o NumberToString(b) \o <<")">>

\* faulty variant: the offset is one short
Sq1Value_Off(k) == k - (SQ1_OFFSET - 1)

\* Math.floor(Math.random() * 12) - 5, for the index k the floor produced
Sq1Value(k) == k - SQ1_OFFSET

\* faulty variant: the pair is never redrawn
Degenerate_Never(t, b) == FALSE

\* top === 0 && bottom === 0
Degenerate(t, b) == t = 0 /\ b = 0

generateSq1Scramble ==
    /\ Idle
    /\ call' = [fn |-> "generateSq1Scramble", faces |-> << >>, axis |-> << >>, mods |-> << >>,
                length |-> SQ1_LENGTH]
    /\ parts' = << >>
    /\ i' = 0
    /\ entropy' = 0
    /\ result' = << >>
    /\ pc' = "loop"
    /\ UNCHANGED <<top, bottom, moves, lastFace, secondLastFace, faceEntry, uiVars, tip>>

\* one pass of the do-while loop and, when the pair is kept, the push
Pass(kt, kb) ==
    /\ top' = Sq1Value(kt)
    /\ bottom' = Sq1Value(kb)
    /\ IF Degenerate(Sq1Value(kt), Sq1Value(kb))
       THEN UNCHANGED <<parts, i>>
       ELSE /\ parts' = Append(parts, Sq1Token(Sq1Value(kt), Sq1Value(kb)))
            /\ i' = i + 1
    /\ UNCHANGED <<call, pc, result, moves, lastFace, secondLastFace, faceEntry, uiVars, tip>>

DrawPair(kt, kb) ==
    /\ pc = "loop"
    /\ call.fn = "generateSq1Scramble"
    /\ i < SQ1_LENGTH
    /\ entropy < MaxFreePasses
    /\ entropy' = entropy + 1
    /\ Pass(kt, kb)

DrawDefaultPair ==
    /\ pc = "loop"
    /\ call.fn = "generateSq1Scramble"
    /\ i < SQ1_LENGTH
    /\ UNCHANGED entropy
    /\ Pass(DefaultDraw, DefaultDraw)

\* return parts.join(' / ')
ReturnSq1 ==
    /\ pc = "loop"
    /\ call.fn = "generateSq1Scramble"
    /\ ~(i < SQ1_LENGTH)
    /\ result' = Join(parts, <<" ", "/", " ">>)
    /\ pc' = "returned"
    /\ UNCHANGED <<call, moves, lastFace, secondLastFace, faceEntry, i, sq1Vars, uiVars, tip>>

NextSq1 ==
    \/ generateSq1Scramble
    \/ \E kt \in DrawIndices, kb \in DrawIndices : DrawPair(kt, kb)
    \/ DrawDefaultPair
    \/ ReturnSq1

SpecSq1 == Init /\ [][NextSq1]_vars

----------------------------------------------------------------------------
(* scramble.ts: generatePyraminxScramble                                    *)
(*                                                                          *)
(* The call draws at least 22 indices for the main moves and four to eight  *)
(* numbers for the tips.  The model lets MaxFreeDraws passes of the         *)
(* do-while loop draw any face and any modifier; every other pass draws the *)
(* first face the while condition lets through, with the first modifier.    *)
(* Every tip is free: left out, or pushed with either modifier.             *)
(****************************************************************************)

PYRA_LENGTH == 11
MaxFreeDraws == 1

\* for (const tip of ['r', 'u', 'l', 'b'])
TIPS == <<"r", "u", "l", "b">>

\* faulty variant: the modifiers of the cube are handed on
generatePyraminxScramble_CubeMods ==
    /\ Idle
    /\ call' = [fn |-> "generatePyraminxScramble",
                faces |-> [k \in DOMAIN PYRA_FACES |-> Single(PYRA_FACES[k])],
                axis |-> PYRA_AXIS, mods |-> MODIFIERS, length |-> PYRA_LENGTH]
    /\ EnterLoop

\* const moves = randomMovesScramble(['R', 'U', 'L', 'B'], axis, mods, 11)
generatePyraminxScramble ==
    /\ Idle
    /\ call' = [fn |-> "generatePyraminxScramble",
                faces |-> [k \in DOMAIN PYRA_FACES |-> Single(PYRA_FACES[k])],
                axis |-> PYRA_AXIS, mods |-> PYRA_MODS, length |-> PYRA_LENGTH]
    /\ EnterLoop

\* one pass of the do-while loop of randomMovesScramble that drew face k and, when
\* the while condition is false, the rest of the for body with modifier m
MainPass(k, m) ==
    /\ faceEntry' = call.faces[k]
    /\ IF Rejected(call.faces[k])
       THEN UNCHANGED <<moves, lastFace, secondLastFace, i>>
       ELSE /\ moves' = Append(moves, call.faces[k].moves[1] \o call.mods[m])
            /\ secondLastFace' = lastFace
            /\ lastFace' = call.faces[k].face
            /\ i' = i + 1
    /\ UNCHANGED <<call, pc, result, parts, top, bottom, tip, uiVars>>

\* the first face of the list that the while condition lets through
FirstAccepted ==
    CHOOSE k \in DOMAIN call.faces :
        /\ ~Rejected(call.faces[k])
        /\ \A q \in 1..(k - 1) : Rejected(call.faces[q])

DrawMain ==
    /\ pc = "loop"
    /\ call.fn = "generatePyraminxScramble"
    /\ LoopTest
    /\ entropy < MaxFreeDraws
    /\ entropy' = entropy + 1
    /\ \E k \in DOMAIN call.faces, m \in DOMAIN call.mods : MainPass(k, m)

DrawDefaultMain ==
    /\ pc = "loop"
    /\ call.fn = "generatePyraminxScramble"
    /\ LoopTest
    /\ UNCHANGED entropy
    /\ MainPass(FirstAccepted, 1)

\* Math.random() < 0.5 is false: the tip is left out
SkipTip ==
    /\ pc = "loop"
    /\ call.fn = "generatePyraminxScramble"
    /\ ~LoopTest
    /\ tip < Len(TIPS)
    /\ tip' = tip + 1
    /\ UNCHANGED <<call, moves, lastFace, secondLastFace, faceEntry, i, pc, result, sq1Vars, uiVars>>

\* moves.push(tip + mods[Math.floor(Math.random() * mods.length)])
PushTip ==
    /\ pc = "loop"
    /\ call.fn = "generatePyraminxScramble"
    /\ ~LoopTest
    /\ tip < Len(TIPS)
    /\ \E m \in DOMAIN call.mods : moves' = Append(moves, <<TIPS[tip + 1]>> \o call.mods[m])
    /\ tip' = tip + 1
    /\ UNCHANGED <<call, lastFace, secondLastFace, faceEntry, i, pc, result, sq1Vars, uiVars>>

\* return moves.join(' ')
ReturnPyraminx ==
    /\ pc = "loop"
    /\ call.fn = "generatePyraminxScramble"
    /\ ~LoopTest
    /\ tip = Len(TIPS)
    /\ result' = Join(moves, <<" ">>)
    /\ pc' = "returned"
    /\ UNCHANGED <<call, moves, lastFace, secondLastFace, faceEntry, i, sq1Vars, tip, uiVars>>

NextPyraminx ==
    \/ generatePyraminxScramble
    \/ DrawMain
    \/ DrawDefaultMain
    \/ SkipTip
    \/ PushTip
    \/ ReturnPyraminx

SpecPyraminx == Init /\ [][NextPyraminx]_vars

----------------------------------------------------------------------------
(* utils/formatTime.ts, and the same function in App.tsx                    *)
(*                                                                          *)
(* ms is a whole number of milliseconds.  ms / 1000 is the double nearest   *)
(* to the quotient, and toFixed(2) rounds the exact value of that double:   *)
(* when the quotient lies halfway between two hundredths, the side the      *)
(* double fell on decides.  % 60 is exact on doubles, so the seconds of the *)
(* minutes branch carry the same error as ms / 1000.                        *)

FormatSpan == 40
FormatBases == {0, 9400, 59960, 65400, 119960}
FormatInputs == UNION {b..(b + FormatSpan) : b \in FormatBases}

RECURSIVE BitLength(_)
BitLength(n) == IF n = 0 THEN 0 ELSE 1 + BitLength(n \div 2)

RECURSIVE Remainder(_, _, _)
\* what is left of r / 1000 once `bits` more significant binary digits are written;
\* digits count from the leading 1, which `started` says has been written
Remainder(r, bits, started) ==
    IF bits = 0 \/ r = 0 THEN r
    ELSE LET bit == IF 2 * r >= 1000 THEN 1 ELSE 0
             rest == (2 * r) % 1000
         IN IF started \/ bit = 1 THEN Remainder(rest, bits - 1, TRUE)
            ELSE Remainder(rest, bits, FALSE)

\* the sign of (ms / 1000 as a double) - (ms / 1000 exactly): 53 significant bits,
\* rounded to nearest
DoubleError(ms) ==
    LET q == ms \div 1000
        r53 == Remainder(ms % 1000, 53 - BitLength(q), q > 0)
    IN IF r53 = 0 THEN 0 ELSE IF 2 * r53 >= 1000 THEN 1 ELSE -1

\* x.toFixed(2) for the double x that is v thousandths off by an error of sign e
ToFixed2(v, e) ==
    LET up == v % 10 > 5 \/ (v % 10 = 5 /\ e >= 0)
        c == (v \div 10) + (IF up THEN 1 ELSE 0)
    IN Digits(c \div 100) \o <<".">>
           \o <<DigitChars[((c % 100) \div 10) + 1], DigitChars[(c % 10) + 1]>>

\* str.padStart(n, ch)
PadStart(str, n, ch) ==
    IF Len(str) >= n THEN str ELSE [k \in 1..(n - Len(str)) |-> ch] \o str

\* faulty variant: the seconds are not padded
formatTime_NoPad(ms) ==
    IF ms < 60000 THEN ToFixed2(ms, DoubleError(ms))
    ELSE NumberToString(ms \div 60000) \o <<":">> \o ToFixed2(ms % 60000, DoubleError(ms))

formatTime(ms) ==
    IF ms < 60000 THEN ToFixed2(ms, DoubleError(ms))
    ELSE LET minutes == ms \div 60000
             seconds == PadStart(ToFixed2(ms % 60000, DoubleError(ms)), 5, "0")
         IN NumberToString(minutes) \o <<":">> \o seconds

RECURSIVE Split(_, _)
\* the pieces of str between the occurrences of the character sep
Split(str, sep) ==
    IF \A n \in DOMAIN str : str[n] # sep THEN <<str>>
    ELSE LET n == CHOOSE q \in DOMAIN str : str[q] = sep /\ \A r \in 1..(q - 1) : str[r] # sep
         IN <<SubSeq(str, 1, n - 1)>> \o Split(SubSeq(str, n + 1, Len(str)), sep)

\* the return of a pure function: nothing but call and result has changed
Returned ==
    /\ pc' = "returned"
    /\ UNCHANGED <<moves, lastFace, secondLastFace, faceEntry, i, sq1Vars, tip, uiVars>>

\* one call of formatTime: the argument is kept in call, the value in result
CallFormatTime(ms) ==
    /\ Idle
    /\ call' = [fn |-> "formatTime", ms |-> ms]
    /\ result' = formatTime(ms)
    /\ Returned

NextFormat == \E ms \in FormatInputs : CallFormatTime(ms)

SpecFormat == Init /\ [][NextFormat]_vars

----------------------------------------------------------------------------
(* utils/arrayUtils.ts                                                      *)
(*                                                                          *)
(* An array is the sequence of its elements, index k of the code being      *)
(* position k + 1.  A call yields the value returned and what the array     *)
(* passed in holds afterwards.  The callers pass findIndex results: -1 or   *)
(* an index of the array.                                                   *)

MaxArray == 3

Items == {"a", "b", "c"}
Arrays == UNION {[1..n -> Items] : n \in 0..MaxArray}

\* what list holds after list.splice(k, 1)
SpliceOut(list, k) == SubSeq(list, 1, k) \o SubSeq(list, k + 2, Len(list))

\* what list holds after list.splice(k, 0, x)
SpliceIn(list, k, x) == SubSeq(list, 1, k) \o <<x>> \o SubSeq(list, k + 1, Len(list))

\* faulty variant: next is the array itself, not a copy of it
reorderArray_InPlace(arr, fromIdx, toIdx) ==
    IF fromIdx = -1 \/ toIdx = -1 THEN [value |-> arr, arr |-> arr]
    ELSE LET moved == arr[fromIdx + 1]
             next == SpliceIn(SpliceOut(arr, fromIdx), toIdx, moved)
         IN [value |-> next, arr |-> next]

reorderArray(arr, fromIdx, toIdx) ==
    IF fromIdx = -1 \/ toIdx = -1 THEN [value |-> arr, arr |-> arr]
    ELSE LET moved == arr[fromIdx + 1]
             next == SpliceIn(SpliceOut(arr, fromIdx), toIdx, moved)
         IN [value |-> next, arr |-> arr]

CallReorderArray(arr, fromIdx, toIdx) ==
    LET r == reorderArray(arr, fromIdx, toIdx)
    IN /\ Idle
       /\ call' = [fn |-> "reorderArray", arr |-> arr, fromIdx |-> fromIdx, toIdx |-> toIdx,
                   after |-> r.arr]
       /\ result' = r.value
       /\ Returned

NextReorder ==
    \E arr \in Arrays : \E fromIdx, toIdx \in -1..(Len(arr) - 1) :
        CallReorderArray(arr, fromIdx, toIdx)

SpecReorder == Init /\ [][NextReorder]_vars

----------------------------------------------------------------------------
(* App.tsx: the solve list and the statistics every render computes from it *)
(*                                                                          *)
(* The lists localStorage can hold when the page loads, and the edit dialog. *)

MaxHistory == 3

SolveTimes == {9000, 10000}
Penalties == {"none", "+2", "dnf"}

\* the SolveTime records with this id: penalty is an optional field
SolveRecords(id) ==
    {[id |-> id, time |-> t, date |-> id] : t \in SolveTimes}
        \cup {[id |-> id, time |-> t, date |-> id, penalty |-> p] : t \in SolveTimes, p \in Penalties}

RECURSIVE StoredLists(_)
\* the lists of n solves localStorage can hold: newest first, the ids falling
StoredLists(n) ==
    IF n = 0 THEN {<< >>}
    ELSE {<<r>> \o h : r \in SolveRecords(n), h \in StoredLists(n - 1)}

\* useState(() => loadTimes(DEFAULT_EVENT.id)) in a browser whose localStorage holds h
MountWithStored(h) ==
    /\ last.op = "init"
    /\ storage' = [storage EXCEPT ![DEFAULT_EVENT] = h]
    /\ solves' = h
    /\ Mark("loadTimes")
    /\ UNCHANGED <<timerVars, now, browserVars, hookVars, page, currentEvent, scramble, editVars,
                   stopped, downAt, upAt, ticks, genVars>>
    /\ Render

\* { ...s, ...patch }
Merge(s, patch) ==
    [f \in DOMAIN s \cup DOMAIN patch |-> IF f \in DOMAIN patch THEN patch[f] ELSE s[f]]

\* faulty variant: the patched list is not saved
updateSolve_NoSave(id, patch) ==
    LET updated == [n \in DOMAIN solves |->
                       IF solves[n].id = id THEN Merge(solves[n], patch) ELSE solves[n]]
    IN
    /\ page = "timer"
    /\ solves' = updated
    /\ UNCHANGED storage
    /\ Mark("updateSolve")
    /\ UNCHANGED <<timerVars, now, browserVars, hookVars, page, currentEvent, scramble,
                   stopped, downAt, upAt, ticks, genVars>>
    /\ Render

updateSolve(id, patch) ==
    LET updated == [n \in DOMAIN solves |->
                       IF solves[n].id = id THEN Merge(solves[n], patch) ELSE solves[n]]
    IN
    /\ page = "timer"
    /\ solves' = updated
    /\ storage' = [storage EXCEPT ![currentEvent] = updated]
    /\ Mark("updateSolve")
    /\ UNCHANGED <<timerVars, now, browserVars, hookVars, page, currentEvent, scramble,
                   stopped, downAt, upAt, ticks, genVars>>
    /\ Render

\* the edit button of a row: the dialog opens on the solve, the input shows its time
openEditModal(solve) ==
    /\ page = "timer"
    /\ editingSolve' = solve
    /\ editTimeInput' = formatTime(solve.time)
    /\ Mark("openEditModal")
    /\ UNCHANGED <<timerVars, now, browserVars, hookVars, page, currentEvent, scramble,
                   stopped, downAt, upAt, ticks, genVars>>
    /\ Rerender

\* setEditingSolve(null): the Close button, or a click beside the dialog
closeEditModal ==
    /\ editingSolve # Null
    /\ editingSolve' = Null
    /\ Mark("closeEditModal")
    /\ UNCHANGED <<timerVars, now, browserVars, hookVars, page, currentEvent, scramble,
                   editTimeInput,
                   stopped, downAt, upAt, ticks, genVars>>
    /\ Rerender

\* faulty variant: the button of the penalty that is set sets it again
togglePenalty_NeverNone(which) ==
    LET newPenalty == which
    IN /\ editingSolve # Null
       /\ updateSolve(editingSolve.id, [penalty |-> newPenalty])
       /\ editingSolve' = Merge(editingSolve, [penalty |-> newPenalty])
       /\ UNCHANGED editTimeInput

\* the DNF and +2 buttons of the edit dialog: the penalty is set, or taken back to none,
\* in the list and in the copy the dialog holds
togglePenalty(which) ==
    LET newPenalty == IF PenaltyOf(editingSolve) = which THEN "none" ELSE which
    IN /\ editingSolve # Null
       /\ updateSolve(editingSolve.id, [penalty |-> newPenalty])
       /\ editingSolve' = Merge(editingSolve, [penalty |-> newPenalty])
       /\ UNCHANGED editTimeInput

MaxWindow == 5

\* the effective times a window is drawn from
EffectiveTimes == {Finite(900), Finite(1000), Finite(1100), Finite(1200), Infinity}
Windows == UNION {[1..n -> EffectiveTimes] : n \in 3..MaxWindow}

CallTrimmedMean(times) ==
    /\ Idle
    /\ call' = [fn |-> "trimmedMean", times |-> times]
    /\ result' = trimmedMean(times)
    /\ Returned

NextMean == \E times \in Windows : CallTrimmedMean(times)

SpecMean == Init /\ [][NextMean]_vars

NextStats ==
    \/ \E n \in 0..MaxHistory : \E h \in StoredLists(n) : MountWithStored(h)
    \/ \E s \in {solves[n] : n \in DOMAIN solves} : openEditModal(s)
    \/ closeEditModal
    \/ \E which \in {"dnf", "+2"} : togglePenalty(which)
    \/ \E s \in {solves[n] : n \in DOMAIN solves} : deleteSolve(s.id)
    \/ clearAllSolves

SpecStats == Init /\ [][NextStats]_vars

----------------------------------------------------------------------------
(* App.tsx: lists long enough for the averages of 5 and of 12               *)

MaxSolves == 12
MaxPenalised == 1

\* the solve with this id in a long list: the times of neighbours differ
LongRecord(id) == [id |-> id, time |-> 9000 + 300 * (id % 3), date |-> id]

\* the stored lists of n solves of which at most k carry a penalty: newest first, the
\* ids falling from n to 1
LongLists(n, k) ==
    LET marked == {Q \in SUBSET (1..n) : Cardinality(Q) <= k}
        marks == UNION {[Q -> {"dnf", "+2"}] : Q \in marked}
    IN {[m \in 1..n |-> IF (n + 1 - m) \in DOMAIN pen
                        THEN Merge(LongRecord(n + 1 - m), [penalty |-> pen[n + 1 - m]])
                        ELSE LongRecord(n + 1 - m)] : pen \in marks}

\* the page loads in a browser that holds one of the long lists
MountLong ==
    /\ last.op = "init"
    /\ \E n \in 0..MaxSolves : \E h \in LongLists(n, MaxPenalised) : MountWithStored(h)

\* the delete button of the newest row
deleteNewest ==
    /\ Len(solves) > 0
    /\ deleteSolve(solves[1].id)

NextAverages ==
    \/ MountLong
    \/ deleteNewest
    \/ \E p \in Pages : setPage(p)

SpecAverages == Init /\ [][NextAverages]_vars

----------------------------------------------------------------------------
(* App.tsx: the time field of the edit dialog                               *)
(*                                                                          *)
(* A parsed number is NaN or the decimal n / 10^e.  The inputs hold no      *)
(* exponent and not the word Infinity, and no more digits than a double     *)
(* keeps apart.                                                             *)

MaxEdited == 2

\* what is typed into the time field
EditInputs ==
    { << >>,
      <<"a", "b", "c">>,
      <<"0">>,
      <<"-", "5">>,
      <<"0", ":", "0", "0", ".", "0", "0">>,
      <<":", "3", "0">>,
      <<"1", "2", ".", "3", "4">>,
      <<"1", ":", "0", "5", ".", "4", "3">>,
      <<"1", ":", "2", ":", "3">>,
      <<"0", ".", "0", "0", "0", "4">> }

\* the value of a decimal digit, -1 for any other character
DigitOf(c) ==
    IF \E d \in DOMAIN DigitChars : DigitChars[d] = c
    THEN (CHOOSE d \in DOMAIN DigitChars : DigitChars[d] = c) - 1
    ELSE -1

RECURSIVE DigitRun(_, _)
\* the length of the run of digits of str that starts at position from
DigitRun(str, from) ==
    IF from > Len(str) THEN 0
    ELSE IF DigitOf(str[from]) < 0 THEN 0
    ELSE 1 + DigitRun(str, from + 1)

RECURSIVE NatOf(_, _, _)
\* the number the len digits of str from position from on spell
NatOf(str, from, len) ==
    IF len = 0 THEN 0
    ELSE 10 * NatOf(str, from, len - 1) + DigitOf(str[from + len - 1])

RECURSIVE Pow10(_)
Pow10(k) == IF k = 0 THEN 1 ELSE 10 * Pow10(k - 1)

\* parseFloat: blanks are skipped, then the longest prefix that is a decimal literal
\* (sign, digits, point, digits) is read; NaN when there is none
parseFloat(str) ==
    LET blanks == {n \in DOMAIN str : \A q \in 1..n : str[q] = " "}
        start == Cardinality(blanks) + 1
        signed == start <= Len(str) /\ str[start] \in {"+", "-"}
        p == IF signed THEN start + 1 ELSE start
        whole == DigitRun(str, p)
        dot == p + whole <= Len(str) /\ str[p + whole] = "."
        frac == IF dot THEN DigitRun(str, p + whole + 1) ELSE 0
        mant == NatOf(str, p, whole) * Pow10(frac) + NatOf(str, p + whole + 1, frac)
    IN IF whole = 0 /\ frac = 0 THEN NaN
       ELSE [n |-> IF signed /\ str[start] = "-" THEN 0 - mant ELSE mant, e |-> frac]

\* x * 60 + y
Times60Plus(x, y) ==
    IF x = NaN \/ y = NaN THEN NaN
    ELSE LET e == IF x.e > y.e THEN x.e ELSE y.e
         IN [n |-> 60 * x.n * Pow10(e - x.e) + y.n * Pow10(e - y.e), e |-> e]

\* Math.round(seconds * 1000) of a positive number: the nearest whole number, halves up
MathRound1000(seconds) == (2000 * seconds.n + Pow10(seconds.e)) \div (2 * Pow10(seconds.e))

\* onChange of the time field
setEditTimeInput(text) ==
    /\ page = "timer"
    /\ editingSolve # Null
    /\ editTimeInput' = text
    /\ Mark("setEditTimeInput")
    /\ UNCHANGED <<timerVars, now, browserVars, hookVars, page, currentEvent, scramble,
                   editingSolve,
                   stopped, downAt, upAt, ticks, genVars>>
    /\ Rerender

\* what applyEditTime reads from the field: "M:SS.xx" or "SS.xx"
EditedSeconds(text) ==
    LET pieces == Split(text, ":")
    IN IF Len(pieces) = 2 THEN Times60Plus(parseFloat(pieces[1]), parseFloat(pieces[2]))
       ELSE parseFloat(pieces[1])

\* isNaN(seconds) || seconds <= 0
Refused(seconds) == seconds = NaN \/ seconds.n <= 0

\* the Save button of the dialog
applyEditTime ==
    LET seconds == EditedSeconds(editTimeInput)
    IN /\ editingSolve # Null
       /\ IF Refused(seconds)
          THEN /\ Mark("applyEditTime")
               /\ UNCHANGED <<timerVars, now, browserVars, hookVars, appVars,
                              stopped, downAt, upAt, ticks, genVars>>
          ELSE /\ updateSolve(editingSolve.id, [time |-> MathRound1000(seconds)])
               /\ editingSolve' = Null
               /\ UNCHANGED editTimeInput

\* the page loads in a browser that holds a short list
MountShort ==
    /\ last.op = "init"
    /\ \E n \in 0..MaxEdited : \E h \in LongLists(n, MaxPenalised) : MountWithStored(h)

NextEdit ==
    \/ MountShort
    \/ \E s \in {solves[n] : n \in DOMAIN solves} : openEditModal(s)
    \/ \E text \in EditInputs : setEditTimeInput(text)
    \/ applyEditTime

SpecEdit == Init /\ [][NextEdit]_vars

\* the edit dialog with all its buttons
NextDialog ==
    \/ NextEdit
    \/ closeEditModal
    \/ \E which \in {"dnf", "+2"} : togglePenalty(which)

SpecDialog == Init /\ [][NextDialog]_vars

\* a stored solve whose time the timer measured to the millisecond
TimedRecord(ms) == [id |-> 1, time |-> ms, date |-> 1]

\* the page loads in a browser that holds one measured solve
MountTimed ==
    /\ last.op = "init"
    /\ \E ms \in FormatInputs \ {0} : MountWithStored(<<TimedRecord(ms)>>)

\* the dialog is opened on a row and saved as it is
NextReopen ==
    \/ MountTimed
    \/ \E s \in {solves[n] : n \in DOMAIN solves} : openEditModal(s)
    \/ applyEditTime

SpecReopen == Init /\ [][NextReopen]_vars

----------------------------------------------------------------------------
(* App.tsx: the operations on the history and what localStorage holds       *)
(*                                                                          *)
(* Runs are timed with the pointer, on a clock that is read every 550 ms,   *)
(* and every history operation of the page is offered: the stop, the delete *)
(* button of a row, Clear all, the event buttons and, through the edit      *)
(* dialog, the penalty buttons and Save.                                    *)
(****************************************************************************)

MaxHolds == 1

\* time passes: as long as a hold takes
App_WaitHold ==
    /\ now + HOLD_DELAY <= StartNow + MaxHolds * HOLD_DELAY
    /\ now' = now + HOLD_DELAY
    /\ UNCHANGED <<timerVars, browserVars, hookVars, appVars, obsVars>>
    /\ UNCHANGED genVars

NextHistory ==
    \/ App_handlePointerDown
    \/ App_handlePointerUp
    \/ \E t \in pendingTimeouts : HoldTimeout(t)
    \/ App_WaitHold
    \/ \E e \in EventIds : switchEvent(e)
    \/ \E s \in {solves[n] : n \in DOMAIN solves} : deleteSolve(s.id)
    \/ clearAllSolves
    \/ \E s \in {solves[n] : n \in DOMAIN solves} : openEditModal(s)
    \/ closeEditModal
    \/ \E which \in {"dnf", "+2"} : togglePenalty(which)
    \/ applyEditTime

SpecHistory == Init /\ [][NextHistory]_vars

(***************************************************************************)
(* AlgPractice.tsx: practising the cases of a set                          *)
(***************************************************************************)

\* The practice of a set with the pointer: the clock is read once every hold delay,
\* which is enough for a press to reach ready and for a run to have a length.
MaxPracticeHolds == 3

AlgPractice_WaitHold ==
    /\ now + HOLD_DELAY <= StartNow + MaxPracticeHolds * HOLD_DELAY
    /\ now' = now + HOLD_DELAY
    /\ UNCHANGED <<timerVars, browserVars, hookVars, appVars, obsVars>>
    /\ UNCHANGED genVars

NextPractice ==
    \/ handlePointerDown
    \/ handlePointerUp
    \/ \E t \in pendingTimeouts : HoldTimeout(t)
    \/ AlgPractice_WaitHold
    \/ openSet
    \/ goBackToSets
    \/ \E c \in CaseIds : practiceCase(c)
    \/ practiceSet
    \/ \E ids \in SUBSET CaseIds : practiceSelected(ids)
    \/ goBackToCases
    \/ \E s \in {practiceSolves[n] : n \in DOMAIN practiceSolves} : AlgPractice_deleteSolve(s.id)

SpecPractice == Init /\ [][NextPractice]_vars

----------------------------------------------------------------------------
(* The logical inputs of the machine *)

DownEvent == handleKeyDown("Space", FALSE) \/ handlePointerDown
UpEvent == handleKeyUp("Space") \/ handlePointerUp
App_DownEvent == App_handleKeyDown("Space", FALSE) \/ App_handlePointerDown
App_UpEvent == App_handleKeyUp("Space") \/ App_handlePointerUp

\* any key or pointer event reaching the window while AlgPractice is the page
InputEvent ==
    \/ \E c \in Codes, r \in BOOLEAN : handleKeyDown(c, r)
    \/ \E c \in Codes : handleKeyUp(c)
    \/ handlePointerDown
    \/ handlePointerUp
    \/ UnboundInput

\* a reset of the machine by its caller
ExplicitReset == goBackToCases \/ (\E e \in EventIds : switchEvent(e))

PhaseEdges ==
    {<<"idle", "holding">>, <<"holding", "ready">>, <<"holding", "idle">>,
     <<"ready", "running">>, <<"running", "idle">>}

TimeoutFired == pendingTimeouts \ pendingTimeouts'

----------------------------------------------------------------------------
(* Timer claims *)

\* C1: the phase changes only along Idle->Holding, Holding->Ready, Holding->Idle,
\* Ready->Running, Running->Idle, or to Idle by an explicit reset.
C1_PhaseEdges ==
    [][(mounted /\ mounted' /\ timerState' # timerState)
          => \/ <<timerState, timerState'>> \in PhaseEdges
             \/ ExplicitReset /\ timerState' = "idle"]_vars

\* C2: a down in Idle begins Holding and starts one 550 ms timeout; Ready is entered
\* only from Holding, by the timeout of the down that began this Holding, and no
\* sooner than 550 ms after that down.
C2_ReadyOnlyAfterOwnHold ==
    [][/\ ((DownEvent \/ App_DownEvent) /\ timerState = "idle")
            => /\ timerState' = "holding"
               /\ pendingTimeouts' \ pendingTimeouts
                    = {[id |-> holdTimeoutRef', due |-> now + HOLD_DELAY]}
       /\ (timerState' = "ready" /\ timerState # "ready")
            => /\ timerState = "holding"
               /\ now - downAt >= HOLD_DELAY
               /\ TimeoutFired = {[id |-> holdTimeoutRef, due |-> downAt + HOLD_DELAY]}]_vars

\* C3: an up in Holding takes the machine to Idle, leaves no timeout pending, calls
\* no stop callback; and the machine becomes Ready only from Holding, by the timeout
\* its ref names (never by a cancelled one).
C3_HoldCancellation ==
    [][/\ (UpEvent /\ timerState = "holding")
            => /\ timerState' = "idle"
               /\ pendingTimeouts' = {}
               /\ stopped' = stopped
       /\ (timerState' = "ready" /\ timerState # "ready")
            => /\ timerState = "holding"
               /\ \E t \in TimeoutFired : t.id = holdTimeoutRef]_vars

\* a hold released after 275 ms
W_C3 ==
    /\ last.op \in {"keyup", "pointerup"}
    /\ last.from = "holding"
    /\ timerState = "idle"
    /\ now > downAt /\ now - downAt < HOLD_DELAY
    /\ pendingTimeouts = {}

\* C4: Ready is reached no sooner than 550 ms after the down; the up in Ready at t0
\* enters Running with startInstant = t0; the down in Running at t1 returns to Idle
\* and calls onStop once, with t1 - t0.
C4_FullCycle ==
    [][/\ (UpEvent /\ timerState = "ready")
            => /\ now - downAt >= HOLD_DELAY
               /\ timerState' = "running"
               /\ startTimeRef' = now
       /\ (DownEvent /\ timerState = "running")
            => /\ timerState' = "idle"
               /\ Len(stopped') = Len(stopped) + 1
               /\ SubSeq(stopped', 1, Len(stopped)) = stopped
               /\ stopped'[Len(stopped')].value = now - upAt]_vars

\* a run of 550 ms has been stopped
W_C4 ==
    /\ last.op \in {"keydown", "pointerdown"}
    /\ last.from = "running"
    /\ timerState = "idle"
    /\ stopped # << >>
    /\ stopped[Len(stopped)].value = 2 * TickMs
    /\ now - upAt = 2 * TickMs

\* C5: every reported time is the clock at the stop minus the clock at the start of
\* the run, whatever the redraws did: two runs of the same length report the same time.
C5_StopIndependentOfRedraw ==
    /\ \A m \in DOMAIN stopped : stopped[m].value = stopped[m].ran
    /\ \A m, j \in DOMAIN stopped :
          stopped[m].ran = stopped[j].ran => stopped[m].value = stopped[j].value

\* two runs of the same non-zero length, one never redrawn, the other redrawn
W_C5 ==
    \E m, j \in DOMAIN stopped :
        /\ stopped[m].ran = stopped[j].ran
        /\ stopped[m].ran > 0
        /\ stopped[m].ticks = 0
        /\ stopped[j].ticks > 0

\* C6: resetTimer (goBackToCases), in any phase, leaves Idle, no pending timeout, no
\* pending redraw, startInstant 0, and calls no stop callback.
C6_ResetForcesIdle ==
    [][goBackToCases
          => /\ timerState' = "idle"
             /\ pendingTimeouts' = {}
             /\ pendingFrames' = {}
             /\ startTimeRef' = 0
             /\ stopped' = stopped]_vars

\* a reset of a running timer
W_C6 ==
    /\ last.op = "goBackToCases"
    /\ last.from = "running"
    /\ ticks > 0
    /\ timerState = "idle"

\* C7: at most one hold timeout and at most one redraw callback are pending.
C7_AtMostOnePending ==
    /\ Cardinality(pendingTimeouts) <= 1
    /\ Cardinality(pendingFrames) <= 1

C9_ExitsCancel ==
    [][/\ (timerState = "holding" /\ timerState' \notin {"holding", "ready"})
            => pendingTimeouts' = {}
       /\ (timerState = "running" /\ timerState' # "running")
            => pendingFrames' = {}
       /\ (mounted /\ ~mounted')
            => pendingTimeouts' = {} /\ pendingFrames' = {}
       /\ ((\E t \in pendingTimeouts : HoldTimeout(t)) /\ timerState' # timerState)
            => timerState = "holding"
       /\ ((\E f \in pendingFrames : updateDisplay(f)) /\ displayTime' # displayTime)
            => timerState = "running"]_vars

\* C10: an auto-repeat key-down in any phase, a down in Holding or Ready and an up in
\* Idle or Running change neither the phase, the start instant, the pending callbacks
\* nor the stop log; the down that stops a run leaves Idle and starts no hold.
C10_NoOpInputs ==
    [][/\ (\/ \E c \in Codes : handleKeyDown(c, TRUE)
           \/ DownEvent /\ timerState \in {"holding", "ready"}
           \/ UpEvent /\ timerState \in {"idle", "running"})
            => UNCHANGED <<timerState, startTimeRef, pendingTimeouts, pendingFrames, stopped>>
       /\ (DownEvent /\ timerState = "running")
            => timerState' = "idle" /\ pendingTimeouts' = pendingTimeouts]_vars

\* the key is still held after the stop: its auto-repeat arrives in Idle
W_C10 ==
    /\ last.op = "keydown.repeat"
    /\ last.from = "idle"
    /\ timerState = "idle"
    /\ stopped # << >>
    /\ now = upAt + stopped[Len(stopped)].ran

\* C11: while `active` is false a key or pointer down or up changes no phase, starts
\* no hold timeout, starts or stops no run and calls no stop callback.
C11_InactiveIgnoresInput ==
    [][(InputEvent /\ ~active)
          => UNCHANGED <<timerState, startTimeRef, holdTimeoutRef, pendingTimeouts,
                         pendingFrames, stopped>>]_vars

\* a press on the case list, after a solve was timed in the practice view
W_C11 ==
    /\ last.op = "unbound"
    /\ ~active
    /\ view = "cases"
    /\ stopped # << >>
    /\ timerState = "idle"
    /\ pendingTimeouts = {}

----------------------------------------------------------------------------
(* Scramble claims *)

\* the space-separated tokens of the returned scramble
Tokens == Split(result, " ")

FaceLetters == {"R", "L", "U", "D", "F", "B"}

\* the face a move turns: the face letter in its notation
MoveFace(tok) ==
    IF \E n \in DOMAIN tok : tok[n] \in FaceLetters
    THEN tok[CHOOSE n \in DOMAIN tok : tok[n] \in FaceLetters]
    ELSE "?"

\* the axes as the claims name them
AxisGroups ==
    IF call.fn = "generateScramble" THEN {{"R", "L"}, {"U", "D"}, {"F", "B"}}
    ELSE {{"R", "L"}, {"U", "B"}}

SameAxis(f, g) == \E grp \in AxisGroups : f \in grp /\ g \in grp

\* a candidate move of one of the event's faces followed by '', "'" or '2'
CandidateTokens ==
    UNION {{call.faces[k].moves[b] \o md : b \in DOMAIN call.faces[k].moves,
                                            md \in {<< >>, <<"'">>, <<"2">>}} :
           k \in DOMAIN call.faces}

\* C12: a completed generateScramble for scrambleLength L returns L tokens joined by
\* single spaces (the empty string for L = 0), each a candidate move of a face of the
\* event followed by '', "'" or '2'.
C12_LengthAndTokens ==
    (pc = "returned" /\ call.fn = "generateScramble")
        => IF call.length = 0 THEN result = << >>
           ELSE /\ Len(Tokens) = call.length
                /\ \A n \in DOMAIN Tokens : Tokens[n] \in CandidateTokens

\* a 4x4 scramble of full length with the wide double turn Rw2 in it
W_C12 ==
    /\ pc = "returned"
    /\ call.fn = "generateScramble"
    /\ call.faces = FACES_4
    /\ call.length = MaxLength
    /\ \E n \in DOMAIN Tokens : Tokens[n] = <<"R", "w", "2">>

\* C13: no two consecutive moves of a returned scramble are on the same face.
C13_NoFaceTwice ==
    pc = "returned"
        => \A n \in 1..(Len(Tokens) - 1) : MoveFace(Tokens[n]) # MoveFace(Tokens[n + 1])

\* a skewb / pyraminx main sequence that comes back to its first face
W_C13 ==
    /\ pc = "returned"
    /\ call.fn = "randomMovesScramble"
    /\ Len(Tokens) = MaxLength
    /\ MoveFace(Tokens[1]) = MoveFace(Tokens[Len(Tokens)])
    /\ MoveFace(Tokens[1]) = "B"

\* C14: no three consecutive moves of a returned scramble are on faces of the same
\* axis (R/L, U/D, F/B for cubes; R/L and U/B for pyraminx and skewb).
C14_NoAxisTriple ==
    pc = "returned"
        => \A n \in 1..(Len(Tokens) - 2) :
              ~ /\ SameAxis(MoveFace(Tokens[n]), MoveFace(Tokens[n + 1]))
                /\ SameAxis(MoveFace(Tokens[n + 1]), MoveFace(Tokens[n + 2]))

\* a cube scramble that opens with two moves of one axis, D then U
W_C14 ==
    /\ pc = "returned"
    /\ call.fn = "generateScramble"
    /\ Len(Tokens) = MaxLength
    /\ MoveFace(Tokens[1]) = "D"
    /\ MoveFace(Tokens[2]) = "U"

\* at least 3 distinct faces spanning at least 2 distinct axes
WellFormed ==
    /\ Cardinality({call.faces[k].face : k \in DOMAIN call.faces}) >= 3
    /\ Cardinality({AxisOf(call.axis, call.faces[k].face) : k \in DOMAIN call.faces}) >= 2

SomeFaceAcceptable == \E k \in DOMAIN call.faces : ~Rejected(call.faces[k])

\* C17: with at least 3 faces on at least 2 axes some face is acceptable at every step,
\* and under fair draws every call returns.
C17_FairDrawsTerminate ==
    /\ []((pc = "loop" /\ LoopTest /\ WellFormed) => SomeFaceAcceptable)
    /\ ((pc = "loop" /\ WellFormed) ~> (pc = "returned"))

\* three faces on two axes: after R then L only U was acceptable
W_C17 ==
    /\ pc = "returned"
    /\ call.faces = FACES_RLU
    /\ call.length = MaxLength
    /\ moves = << <<"R">>, <<"L", "'">>, <<"U", "2">> >>

\* C18: a malformed spec with scrambleLength > 0 (no face, one face, or fewer than 3
\* faces on 2 axes) makes generateScramble fail: it returns no scramble and is never
\* left with no acceptable face to draw.
C18_MalformedFailsFast ==
    (call.fn = "generateScramble" /\ call.length > 0 /\ ~WellFormed)
        => /\ pc # "returned"
           /\ (pc = "loop" /\ LoopTest /\ call.faces # << >>) => SomeFaceAcceptable

----------------------------------------------------------------------------
(* Square-1 claims *)

\* the positions of str at which sep stands
Occurrences(str, sep) ==
    {n \in 1..(Len(str) - Len(sep) + 1) : \A q \in DOMAIN sep : str[n + q - 1] = sep[q]}

RECURSIVE SplitFrom(_, _, _, _)
\* the pieces of str from position start on, cut at the leftmost occurrence each time
SplitFrom(str, sep, hits, start) ==
    LET ahead == {n \in hits : n >= start} IN
    IF ahead = {} THEN <<SubSeq(str, start, Len(str))>>
    ELSE LET n == CHOOSE q \in ahead : \A r \in ahead : q <= r
         IN <<SubSeq(str, start, n - 1)>> \o SplitFrom(str, sep, hits, n + Len(sep))

\* String.prototype.split: the pieces of str between the occurrences of sep
SplitBy(str, sep) == SplitFrom(str, sep, Occurrences(str, sep), 1)

\* the tokens of the returned Square-1 scramble
Sq1Tokens == SplitBy(result, <<" ", "/", " ">>)

IsDigit(c) == \E d \in DOMAIN DigitChars : DigitChars[d] = c

\* an optional minus sign and then digits only
IsInteger(str) ==
    /\ str # << >>
    /\ IF str[1] = "-" THEN Len(str) > 1 /\ \A n \in 2..Len(str) : IsDigit(str[n])
                       ELSE \A n \in DOMAIN str : IsDigit(str[n])

RECURSIVE ParseNat(_)
ParseNat(str) ==
    LET d == (CHOOSE n \in DOMAIN DigitChars : DigitChars[n] = str[Len(str)]) - 1
    IN IF Len(str) = 1 THEN d ELSE 10 * ParseNat(SubSeq(str, 1, Len(str) - 1)) + d

ParseInteger(str) == IF str[1] = "-" THEN 0 - ParseNat(Tail(str)) ELSE ParseNat(str)

\* the two fields of a token "(a,b)": what stands between the parentheses, cut at commas
Fields(tok) == SplitBy(SubSeq(tok, 2, Len(tok) - 1), <<",">>)

\* the numbers of a token of the form (top,bottom), << >> for any other token
ParsePair(tok) ==
    LET f == Fields(tok) IN
    IF /\ Len(tok) >= 5
       /\ tok[1] = "("
       /\ tok[Len(tok)] = ")"
       /\ Len(f) = 2
       /\ IsInteger(f[1])
       /\ IsInteger(f[2])
    THEN <<ParseInteger(f[1]), ParseInteger(f[2])>>
    ELSE << >>

\* the returned Square-1 scramble, read back token by token
Sq1Pairs == LET toks == Sq1Tokens IN [n \in DOMAIN toks |-> ParsePair(toks[n])]

Sq1Returned == pc = "returned" /\ call.fn = "generateSq1Scramble"

\* C15: the Square-1 scramble is exactly 13 (top,bottom) tokens joined by ' / ', and in
\* no token are top and bottom both 0.
C15_Sq1ThirteenPairs ==
    Sq1Returned
        => LET pairs == Sq1Pairs IN
           /\ Len(pairs) = 13
           /\ \A n \in DOMAIN pairs : pairs[n] # << >> /\ pairs[n] # <<0, 0>>

\* a scramble whose run redrew a (0,0) pair and kept pairs with one 0 on either side
W_C15 ==
    /\ Sq1Returned
    /\ top # 0
    /\ \E n \in DOMAIN Sq1Pairs : Sq1Pairs[n][1] = 0 /\ Sq1Pairs[n][2] # 0
    /\ \E n \in DOMAIN Sq1Pairs : Sq1Pairs[n][1] # 0 /\ Sq1Pairs[n][2] = 0

\* C16 as stated: every top and bottom value is in [-5, 6), the value 6 never occurs.
C16_RangeHalfOpen ==
    Sq1Returned
        => LET pairs == Sq1Pairs IN
           \A n \in DOMAIN pairs : pairs[n][1] \in -5..5 /\ pairs[n][2] \in -5..5

\* C16 amended: every top and bottom value is an integer from -5 to 6, both included.
C16_RangeClosed ==
    Sq1Returned
        => LET pairs == Sq1Pairs IN
           \A n \in DOMAIN pairs :
              /\ pairs[n] # << >>
              /\ pairs[n][1] \in -5..6
              /\ pairs[n][2] \in -5..6

\* a scramble with both ends of the range in it: a top of 6 and a bottom of -5
W_C16 ==
    /\ Sq1Returned
    /\ \E n \in DOMAIN Sq1Pairs : Sq1Pairs[n][1] = 6
    /\ \E n \in DOMAIN Sq1Pairs : Sq1Pairs[n][2] = -5

----------------------------------------------------------------------------
(* Statistics claims *)

\* the records of the list that are not DNF
Finishers == {n \in DOMAIN solves : PenaltyOf(solves[n]) # "dnf"}

\* raw time, with two seconds on top under +2
Counted(n) == solves[n].time + (IF PenaltyOf(solves[n]) = "+2" THEN 2000 ELSE 0)

\* C19: effectiveTime is infinite for a DNF solve, raw time + 2000 for a +2 solve and the
\* raw time when the penalty is none or absent; 9000 ms with +2 gives 11000.
C19_EffectiveTime ==
    /\ \A n \in DOMAIN solves :
          /\ PenaltyOf(solves[n]) = "dnf" => effectiveTime(solves[n]) = Infinity
          /\ PenaltyOf(solves[n]) = "+2" => effectiveTime(solves[n]) = Finite(solves[n].time + 2000)
          /\ PenaltyOf(solves[n]) \in {"none", "undefined"}
                => effectiveTime(solves[n]) = Finite(solves[n].time)
    /\ \A n \in DOMAIN solves :
          (solves[n].time = 9000 /\ PenaltyOf(solves[n]) = "+2")
             => effectiveTime(solves[n]) = Finite(11000)

\* a list with a 9000 ms +2 solve, a DNF, and a solve that never had a penalty field
W_C19 ==
    /\ Len(solves) = MaxHistory
    /\ \E n \in DOMAIN solves : solves[n].time = 9000 /\ PenaltyOf(solves[n]) = "+2"
    /\ \E n \in DOMAIN solves : PenaltyOf(solves[n]) = "dnf"
    /\ \E n \in DOMAIN solves : PenaltyOf(solves[n]) = "undefined"
    /\ last.op = "updateSolve"

\* C20: best is the least effective time of the records that are not DNF, +2 counted
\* in, and null exactly when the list is empty or all DNF.
C20_BestOverFinishers ==
    /\ best(solves) = Null <=> Finishers = {}
    /\ Finishers # {}
          => \E n \in Finishers :
                /\ best(solves) = Finite(Counted(n))
                /\ \A m \in Finishers : Counted(n) <= Counted(m)

\* the fastest raw time carries +2 and so loses to a slower clean solve; one DNF
W_C20 ==
    /\ Len(solves) = MaxHistory
    /\ \E n \in DOMAIN solves : solves[n].time = 9000 /\ PenaltyOf(solves[n]) = "+2"
    /\ \E n \in DOMAIN solves : solves[n].time = 10000 /\ PenaltyOf(solves[n]) = "none"
    /\ \E n \in DOMAIN solves : PenaltyOf(solves[n]) = "dnf"
    /\ best(solves) = Finite(10000)

----------------------------------------------------------------------------
(* Claims about the averages *)

RECURSIVE SumOver(_, _)
\* the milliseconds of the values of list at the indices idx, added up
SumOver(list, idx) ==
    IF idx = {} THEN 0
    ELSE LET k == CHOOSE k \in idx : TRUE
         IN list[k].ms + SumOver(list, idx \ {k})

\* x is the finite number num / den
IsRatio(x, num, den) ==
    /\ "ms" \in DOMAIN x
    /\ IF "over" \in DOMAIN x
       THEN (x.ms * x.over[2] + x.over[1]) * den = num * x.over[2]
       ELSE x.ms * den = num

\* the trimmed mean the words describe: the mean of what is left of the values once one
\* smallest and one largest are taken away, a DNF being larger than every time
TrimmedMeanOf(x, list) ==
    LET n == Len(list)
        dnf == {k \in 1..n : list[k] = Infinity}
        fin == (1..n) \ dnf
        least == CHOOSE k \in fin : \A m \in fin : list[k].ms <= list[m].ms
        most == CHOOSE k \in fin \ {least} : \A m \in fin : list[k].ms >= list[m].ms
    IN IF Cardinality(dnf) >= 2 THEN x = Infinity
       ELSE IF Cardinality(dnf) = 1 THEN IsRatio(x, SumOver(list, fin \ {least}), n - 2)
       ELSE IsRatio(x, SumOver(list, fin \ {least, most}), n - 2)

\* C21: for a window of n >= 3 effective times, trimmedMean is the mean of the sorted
\* values without the first and the last one (one each, ties or not); it is Infinity
\* exactly when the window holds two or more DNFs and finite otherwise;
\* [DNF, 1000, 1200, 1100, 900] gives 1100
C21_TrimmedMean ==
    (pc = "returned" /\ call.fn = "trimmedMean") =>
        LET dnfs == Cardinality({k \in DOMAIN call.times : call.times[k] = Infinity})
        IN /\ TrimmedMeanOf(result, call.times)
           /\ (result = Infinity) <=> (dnfs >= 2)
           /\ dnfs <= 1 => "ms" \in DOMAIN result
           /\ call.times = <<Infinity, Finite(1000), Finite(1200), Finite(1100), Finite(900)>>
                 => result = Finite(1100)

W_C21 ==
    /\ pc = "returned"
    /\ call.fn = "trimmedMean"
    /\ call.times = <<Infinity, Finite(1000), Finite(1200), Finite(1100), Finite(900)>>
    /\ result = Finite(1100)

\* the effective time the words give record k of the list
EffectiveOf(k) == IF k \in Finishers THEN Finite(Counted(k)) ELSE Infinity

\* the effective times of the w records from index k (counted from 0) on
EffectiveWindow(k, w) == [m \in 1..w |-> EffectiveOf(k + m)]

\* C22: the fixed ao5 is there exactly when the list has 5 records or more and is then
\* the trimmed mean of the 5 newest; the same for ao12 and 12; with a shorter list the
\* entry is null
C22_FixedAverages ==
    /\ (snapshot.avg5 # Null) <=> (Len(solves) >= 5)
    /\ (snapshot.avg12 # Null) <=> (Len(solves) >= 12)
    /\ Len(solves) >= 5 => TrimmedMeanOf(snapshot.avg5, EffectiveWindow(0, 5))
    /\ Len(solves) >= 12 => TrimmedMeanOf(snapshot.avg12, EffectiveWindow(0, 12))

W_C22 ==
    /\ Len(solves) = 12
    /\ snapshot.avg5 # Null
    /\ snapshot.avg12 # Null
    /\ snapshot.avg5 # snapshot.avg12
    /\ \E k \in 1..5 : PenaltyOf(solves[k]) = "+2"

\* C23: for w in {5, 12} and a list of n records the rolling map has an entry at index
\* k exactly for 0 <= k <= n - w, and the entry is the trimmed mean of the effective
\* times of the records k .. k+w-1
C23_RollingAverages ==
    /\ DOMAIN snapshot.ao5Map = 0..(Len(solves) - 5)
    /\ DOMAIN snapshot.ao12Map = 0..(Len(solves) - 12)
    /\ \A k \in DOMAIN snapshot.ao5Map : TrimmedMeanOf(snapshot.ao5Map[k], EffectiveWindow(k, 5))
    /\ \A k \in DOMAIN snapshot.ao12Map : TrimmedMeanOf(snapshot.ao12Map[k], EffectiveWindow(k, 12))

W_C23 ==
    /\ Len(solves) = 12
    /\ DOMAIN snapshot.ao5Map = 0..7
    /\ DOMAIN snapshot.ao12Map = {0}
    /\ snapshot.ao5Map[0] # snapshot.ao5Map[7]
    /\ \E k \in DOMAIN solves : PenaltyOf(solves[k]) = "dnf"

----------------------------------------------------------------------------
(* Claims about the edit dialog *)

\* C26: an edit whose input parses to no number or to a number that is not positive is
\* refused: the edited record, every other record and the stored list stay as they
\* were; and every edit that is taken stores a positive time
C26_EditValidated ==
    [][applyEditTime =>
          LET seconds == EditedSeconds(editTimeInput)
          IN IF seconds = NaN \/ seconds.n <= 0
             THEN solves' = solves /\ storage' = storage
             ELSE \A k \in DOMAIN solves' : solves'[k].id = editingSolve.id => solves'[k].time > 0
      ]_vars

\* the fields of a record other than those in `fields` are the same in both
SameBut(before, after, fields) ==
    /\ DOMAIN after \ fields = DOMAIN before \ fields
    /\ \A f \in DOMAIN before \ fields : after[f] = before[f]

\* C37: a penalty button changes the penalty of the record with the id of the dialog's
\* solve and nothing else: not its time, id or date, no other record, not the length
\* or the order of the list; the new penalty is the one of the button, or none when
\* that penalty is the active one of the dialog.  A time edit that is taken changes
\* the time of that record and nothing else.  A record has one penalty at a time.
C37_EditFrame ==
    [][/\ \A which \in {"dnf", "+2"} :
            togglePenalty(which) =>
               /\ Len(solves') = Len(solves)
               /\ \A k \in DOMAIN solves :
                     IF solves[k].id = editingSolve.id
                     THEN /\ SameBut(solves[k], solves'[k], {"penalty"})
                          /\ PenaltyOf(solves'[k])
                               = IF PenaltyOf(editingSolve) = which THEN "none" ELSE which
                     ELSE solves'[k] = solves[k]
       /\ (applyEditTime /\ ~Refused(EditedSeconds(editTimeInput))) =>
               /\ Len(solves') = Len(solves)
               /\ \A k \in DOMAIN solves :
                     IF solves[k].id = editingSolve.id
                     THEN /\ SameBut(solves[k], solves'[k], {"time"})
                          /\ solves'[k].time = MathRound1000(EditedSeconds(editTimeInput))
                     ELSE solves'[k] = solves[k]
       /\ \A k \in DOMAIN solves' : PenaltyOf(solves'[k]) \in {"undefined", "none", "dnf", "+2"}
      ]_vars

\* the DNF of the newer of two solves has been taken back by its own button, after its
\* time was edited; the older solve still has its +2
W_C37 ==
    /\ last.op = "updateSolve"
    /\ Len(solves) = 2
    /\ editingSolve # Null
    /\ editingSolve.id = solves[1].id
    /\ PenaltyOf(solves[1]) = "none"
    /\ PenaltyOf(editingSolve) = "none"
    /\ solves[1].time # LongRecord(solves[1].id).time
    /\ solves[1].date = solves[1].id
    /\ PenaltyOf(solves[2]) = "+2"

\* C38: Save on the text openEditModal put into the field leaves the time of every
\* record as it was.
C38_SaveUntouchedKeepsTime ==
    [][(applyEditTime /\ editTimeInput = formatTime(editingSolve.time))
          => /\ Len(solves') = Len(solves)
             /\ \A k \in DOMAIN solves : solves'[k].time = solves[k].time]_vars

----------------------------------------------------------------------------
(* Claims about formatTime *)

\* the hundredths a text of the form digits, point, two digits spells; -1 for any other
Hundredths(str) ==
    LET f == Split(str, ".")
    IN IF /\ Len(f) = 2
          /\ f[1] # << >>
          /\ Len(f[2]) = 2
          /\ \A n \in DOMAIN f[1] : IsDigit(f[1][n])
          /\ \A n \in DOMAIN f[2] : IsDigit(f[2][n])
       THEN 100 * ParseNat(f[1]) + ParseNat(f[2])
       ELSE -1

\* c hundredths is v thousandths rounded to the nearest hundredth
Rounds(c, v) == c >= 0 /\ 10 * c - v <= 5 /\ v - 10 * c <= 5

\* C27: formatTime renders a value below one minute as the seconds with two decimals,
\* and a value of one minute or more as the minutes, a colon and the seconds padded to
\* two digits with two decimals; 65432 gives "1:05.43" and 9430 gives "9.43"
C27_FormatTime ==
    (pc = "returned" /\ call.fn = "formatTime") =>
        LET f == Split(result, ":")
        IN /\ call.ms < 60000 => Len(f) = 1 /\ Rounds(Hundredths(result), call.ms)
           /\ call.ms >= 60000 =>
                 /\ Len(f) = 2
                 /\ f[1] = NumberToString(call.ms \div 60000)
                 /\ Len(f[2]) = 5
                 /\ Rounds(Hundredths(f[2]), call.ms % 60000)
           /\ call.ms = 65432 => result = <<"1", ":", "0", "5", ".", "4", "3">>
           /\ call.ms = 9430 => result = <<"9", ".", "4", "3">>

W_C27 ==
    /\ pc = "returned"
    /\ call.fn = "formatTime"
    /\ call.ms = 65432
    /\ result = <<"1", ":", "0", "5", ".", "4", "3">>

\* C36: the seconds formatTime renders are below 60.00, for a value under one minute
\* and, after the colon, for a value of one minute or more.
C36_SecondsBelowSixty ==
    (pc = "returned" /\ call.fn = "formatTime") =>
        LET f == Split(result, ":")
            seconds == Hundredths(f[Len(f)])
        IN seconds >= 0 /\ seconds < 6000

----------------------------------------------------------------------------
(* Claims about the solve list *)

\* C28: the list is newest first with ids of its own: a stop puts exactly one new record
\* at index 0 and leaves the records it found as they were and in their order, and the
\* ids fall strictly from index 0 to the end, so no two are equal
C28_NewestFirstUniqueIds ==
    /\ [](\A k \in 1..(Len(solves) - 1) : solves[k].id > solves[k + 1].id)
    /\ [][Len(solves') > Len(solves) => Tail(solves') = solves]_vars

----------------------------------------------------------------------------
(* Claims about reorderArray *)

\* list without the element at position k
Without(list, k) == [n \in 1..(Len(list) - 1) |-> IF n < k THEN list[n] ELSE list[n + 1]]

PyraTokens == Split(result, " ")

\* a main move: one of the faces R, U, L, B, alone or followed by '
IsMainMove(tok) ==
    /\ Len(tok) \in {1, 2}
    /\ tok[1] \in {"R", "U", "L", "B"}
    /\ Len(tok) = 2 => tok[2] = "'"

\* a tip move: one of the tips r, u, l, b, alone or followed by '
IsTipMove(tok) ==
    /\ Len(tok) \in {1, 2}
    /\ tok[1] \in {"r", "u", "l", "b"}
    /\ Len(tok) = 2 => tok[2] = "'"

\* the place of a tip in the order r, u, l, b
TipRank(tok) == CHOOSE n \in 1..4 : <<"r", "u", "l", "b">>[n] = tok[1]

\* C30: the pyraminx scramble has 11 to 15 tokens; the first 11 are main moves over
\* R, U, L, B with no modifier or ' (never 2); the rest are tips among r, u, l, b,
\* in that order, each at most once, with no modifier or '; so no tip comes before
\* a main move
C30_PyraminxTokens ==
    (pc = "returned" /\ call.fn = "generatePyraminxScramble") =>
        LET toks == PyraTokens IN
        /\ Len(toks) >= 11
        /\ Len(toks) <= 15
        /\ \A n \in 1..11 : IsMainMove(toks[n])
        /\ \A n \in 12..Len(toks) : IsTipMove(toks[n])
        /\ \A n \in 12..Len(toks) : \A q \in (n + 1)..Len(toks) :
               TipRank(toks[n]) < TipRank(toks[q])

\* a scramble with an inverted main move, the tips u and b' and no r and no l has been
\* returned
W_C30 ==
    /\ pc = "returned"
    /\ call.fn = "generatePyraminxScramble"
    /\ Len(PyraTokens) = 13
    /\ \E n \in 1..11 : Len(PyraTokens[n]) = 2
    /\ PyraTokens[12] = <<"u">>
    /\ PyraTokens[13] = <<"b", "'">>

----------------------------------------------------------------------------
(* Claims about the timer and its callers, second part *)

\* a step of the main page that is neither a history operation nor a change of event
App_TimerStep ==
    \/ \E c \in Codes, r \in BOOLEAN : App_handleKeyDown(c, r)
    \/ \E c \in Codes : App_handleKeyUp(c)
    \/ App_handlePointerDown
    \/ App_handlePointerUp
    \/ \E t \in pendingTimeouts : HoldTimeout(t)
    \/ \E f \in pendingFrames : updateDisplay(f)
    \/ \E p \in Pages : setPage(p)

\* C31: the stop callback is called once by the down that ends a run and by nothing
\* else (no cancelled hold, reset, teardown or later down), and the value it gets is
\* the clock minus the start instant of the run just ended, which is not zero; the
\* inline timer of App stores its solve under the same conditions.
C31_StopOncePerRun ==
    [][/\ stopped' # stopped => (DownEvent /\ timerState = "running")
       /\ (DownEvent /\ timerState = "running")
            => /\ startTimeRef # 0
               /\ startTimeRef = upAt
               /\ Len(stopped') = Len(stopped) + 1
               /\ SubSeq(stopped', 1, Len(stopped)) = stopped
               /\ stopped'[Len(stopped')].value = now - startTimeRef
       /\ (App_TimerStep /\ solves' # solves) => (App_DownEvent /\ timerState = "running")
       /\ (App_DownEvent /\ timerState = "running")
            => /\ startTimeRef # 0
               /\ startTimeRef = upAt
               /\ solves' = <<[id |-> now, time |-> now - startTimeRef, date |-> now]>> \o solves]_vars

\* two runs have been stopped, the first after a run that took time, and the stop
\* log holds one entry for each
W_C31 ==
    /\ last.op \in {"keydown", "pointerdown"}
    /\ last.from = "running"
    /\ Len(stopped) = 2
    /\ stopped[1].value > 0
    /\ stopped[2].value = now - upAt
    /\ startTimeRef = 0

\* a redraw callback runs
RedrawTick == \E f \in pendingFrames : updateDisplay(f)

\* C32: the stop puts on the display the elapsed value it hands to the stop callback
\* and clears the start instant; the start instant stays cleared until the up that
\* starts the next run, and a redraw callback that finds it cleared changes neither
\* the display nor the pending redraws except by removing itself.
C32_DisplayFrozenAfterStop ==
    [][/\ (DownEvent /\ timerState = "running")
            => /\ displayTime' = stopped'[Len(stopped')].value
               /\ startTimeRef' = 0
       /\ (App_DownEvent /\ timerState = "running")
            => /\ displayTime' = solves'[1].time
               /\ startTimeRef' = 0
       /\ (startTimeRef = 0 /\ startTimeRef' # 0)
            => ((UpEvent \/ App_UpEvent) /\ timerState = "ready" /\ timerState' = "running")
       /\ (RedrawTick /\ startTimeRef = 0)
            => /\ displayTime' = displayTime
               /\ pendingFrames' \subseteq pendingFrames
               /\ animationFrameRef' = animationFrameRef
       /\ (RedrawTick /\ displayTime' # displayTime) => startTimeRef # 0]_vars

\* a run that was redrawn on its way has been stopped, time has passed and a new hold
\* has begun: the display still shows the value the stop reported
W_C32 ==
    /\ timerState = "holding"
    /\ stopped # << >>
    /\ stopped[Len(stopped)].ticks > 0
    /\ stopped[Len(stopped)].value > 0
    /\ displayTime = stopped[Len(stopped)].value
    /\ now > upAt + stopped[Len(stopped)].ran
    /\ startTimeRef = 0

\* C33: on the timer page a request for the current event, or any request during a
\* run, changes neither the event, the list, what is stored, the scramble, the display
\* nor the phase; so the event stays the same for as long as a run lasts, a run begins
\* only by the up in Ready, and the stop stores its solve under that event.
C33_SwitchRefusedWhileRunning ==
    [][/\ \A e \in EventIds :
            (switchEvent(e) /\ (e = currentEvent \/ timerState = "running"))
               => UNCHANGED <<currentEvent, solves, storage, scramble, displayTime, timerState,
                              startTimeRef>>
       /\ (timerState = "running" /\ timerState' = "running") => currentEvent' = currentEvent
       /\ (timerState # "running" /\ timerState' = "running")
            => (App_UpEvent /\ currentEvent' = currentEvent)
       /\ (App_DownEvent /\ timerState = "running")
            => /\ currentEvent' = currentEvent
               /\ storage'[currentEvent] = <<solves'[1]>> \o storage[currentEvent]
               /\ \A e \in EventIds \ {currentEvent} : storage'[e] = storage[e]]_vars

\* the other event was asked for during a run that has lasted a while, on a page that
\* had been switched to 2x2 and holds a solve of it: the run goes on
W_C33 ==
    /\ last.op = "switchEvent"
    /\ last.from = "running"
    /\ timerState = "running"
    /\ currentEvent = "2x2"
    /\ solves # << >>
    /\ storage["2x2"] = solves
    /\ startTimeRef # 0

----------------------------------------------------------------------------
(* Claims about the history and its storage *)

\* C34: what is stored under the current event is the list in memory, after the stop,
\* deleteSolve, updateSolve, clearAllSolves and switchEvent as after every other step,
\* and no step changes what is stored under an event that is not the current one
\* after it.
C34_StorageMirrorsHistory ==
    /\ [](storage[currentEvent] = solves)
    /\ [][\A e \in EventIds \ {currentEvent'} : storage'[e] = storage[e]]_vars

\* a penalty was set on a 2x2 solve while a 3x3 solve is stored as well
W_C34 ==
    /\ last.op = "updateSolve"
    /\ currentEvent = "2x2"
    /\ storage["3x3"] # << >>
    /\ solves # << >>
    /\ PenaltyOf(solves[1]) = "dnf"
    /\ storage["2x2"] = solves
    /\ storage["3x3"] # solves

\* C35: for w = 5 and w = 12, the fixed average is there exactly when the rolling map
\* has an entry at index 0, and the two are then the same value.
C35_FixedIsRollingAtZero ==
    /\ (snapshot.avg5 # Null) <=> (0 \in DOMAIN snapshot.ao5Map)
    /\ (snapshot.avg12 # Null) <=> (0 \in DOMAIN snapshot.ao12Map)
    /\ 0 \in DOMAIN snapshot.ao5Map => snapshot.ao5Map[0] = snapshot.avg5
    /\ 0 \in DOMAIN snapshot.ao12Map => snapshot.ao12Map[0] = snapshot.avg12

\* twelve solves with a DNF among the five newest: both averages are there, they
\* differ from one another and the older windows have averages of their own
W_C35 ==
    /\ Len(solves) = 12
    /\ \E k \in 1..5 : PenaltyOf(solves[k]) = "dnf"
    /\ 0 \in DOMAIN snapshot.ao5Map
    /\ 0 \in DOMAIN snapshot.ao12Map
    /\ snapshot.avg5 # snapshot.avg12
    /\ snapshot.ao5Map[1] # snapshot.avg5
    /\ last.op = "loadTimes"

----------------------------------------------------------------------------
(* Claims about algorithm practice *)

\* C39: a stop in random mode prepends the new solve to the stored times of the case
\* that was being timed and leaves the stored times of every other case alone, and when
\* the practised set has more than one case the case selected next is another one;
\* a stop outside random mode keeps the selected case and prepends the solve to the
\* list in memory and to the stored list of that case.
C39_StopStoresUnderTimedCase ==
    [][(stopped' # stopped /\ selectedCase # NoCase) =>
        LET newSolve == [id |-> now, time |-> now - startTimeRef, date |-> now] IN
        /\ caseStorage'[selectedCase] = <<newSolve>> \o caseStorage[selectedCase]
        /\ \A c \in CaseIds \ {selectedCase} : caseStorage'[c] = caseStorage[c]
        /\ IF randomMode
           THEN /\ selectedCase' \in selectedSet
                /\ Cardinality(selectedSet) > 1 => selectedCase' # selectedCase
           ELSE /\ selectedCase' = selectedCase
                /\ practiceSolves' = <<newSolve>> \o practiceSolves]_vars

\* a second stop in random mode on a set of two cases, after a first solve was stored
\* with another case than the one now selected
W_C39 ==
    /\ last.op = "pointerdown" /\ last.from = "running"
    /\ randomMode /\ Cardinality(selectedSet) > 1
    /\ Len(stopped) = 2
    /\ \A c \in CaseIds : Len(caseStorage[c]) = 1

====
